---- MODULE Spec2Model ----
(***************************************************************************)
(* A model of workflow-cron-start's generation core: the synthesized cron  *)
(* scheduler loop, the scanner, the generator, the path-alias resolver and *)
(* the call-site transformer.                                              *)
(*                                                                         *)
(* Text (source code, import specifiers, paths) is a sequence of atoms: an *)
(* atom is a short string standing for the characters it spells.  Regular  *)
(* expressions of the source are operators over atom sequences; character  *)
(* classes are atom classes.                                               *)
(***************************************************************************)
EXTENDS Integers, Sequences, FiniteSets, TLC

VARIABLES
    schedCfg,       \* scheduler: config.onError as passed ("omitted" when absent)
    schedOnError,   \* scheduler: the destructured onError local
    schedPc,        \* scheduler: "off" | "entry" | "sleeping" | "starting" | "thrown"
    schedThrown,    \* scheduler: which primitive's failure propagated ("none" | "start" | "sleep")
    schedEvents,    \* scheduler: history of calls, outcomes and log lines
    schedFn,        \* scheduler: the scheduled function the module was generated for
    schedArgs,      \* scheduler: config.args
    schedStarts,    \* scheduler: the arguments of each call of start()
    aliasCfg,       \* round trip: the alias table (TsconfigPaths)
    aliasIn,        \* round trip: the specifier given to resolvePathAlias
    aliasAbs,       \* round trip: what resolvePathAlias returned
    aliasOut,       \* round trip: what absolutePathToAlias returned for it
    aliasPc,        \* round trip: "off" | "resolve" | "toAlias" | "done"
    genFs,          \* generator: the filesystem of the project
    genCfg,         \* generator: the alias table readTsconfigPaths returns
    genLast,        \* generator: the arguments and the outcome of the latest pass
    genPasses,      \* generator: how many passes have run
    xfSource,       \* transformer: the source text handed to it
    xfResource,     \* transformer: the path of the file being transformed
    xfRun,          \* transformer: which entry point ran and what it returned
    scanFiles,      \* scanner: the files argument of scanForCronStartCalls
    scanDisk,       \* scanner: what readFile gives for each path
    scanPos,        \* scanner: the position of the loop in files
    scanCalls,      \* scanner: the calls array
    scanResult,     \* scanner: what scanForCronStartCalls returned
    scanPc,         \* scanner: "off" | "loop" | "done"
    impCfg,         \* import selection: the alias table
    impCall,        \* import selection: the origin, the referencing file and
                    \* the path of the synthesized module
    impOut,         \* import selection: what calculateRelativeImport returned
    impPc,          \* import selection: "off" | "call" | "done"
    bldFs,          \* build entry: the project's directories and files
    bldCfg,         \* build entry: the alias table the pass reads
    bldCalls,       \* build entry: what the scan of the project returns
    bldEnv,         \* build entry: whether the environment asks for pre-generation
    bldPass,        \* build entry: how the generation pass ended
    bldPc,          \* build entry: "off" | "entry" | "configured" | "aborted"
    cfgDisk,        \* config load: what each config file of the project holds
    cfgCache,       \* config load: tsconfigPathsCacheDir and tsconfigPathsCache
    cfgLoad,        \* config load: the calls of readTsconfigPaths in progress
    cfgLoads,       \* config load: how many calls were made
    cfgLog,         \* config load: what each call returned, in the order of the returns
    raceFs,         \* concurrent passes: the filesystem of the project
    racePass        \* concurrent passes: the position and the outcome of each process's pass

schedVars == <<schedCfg, schedOnError, schedPc, schedThrown, schedEvents,
               schedFn, schedArgs, schedStarts>>

aliasVars == <<aliasCfg, aliasIn, aliasAbs, aliasOut, aliasPc>>

genVars == <<genFs, genCfg, genLast, genPasses>>

xfVars == <<xfSource, xfResource, xfRun>>

scanVars == <<scanFiles, scanDisk, scanPos, scanCalls, scanResult, scanPc>>

impVars == <<impCfg, impCall, impOut, impPc>>

bldVars == <<bldFs, bldCfg, bldCalls, bldEnv, bldPass, bldPc>>

cfgVars == <<cfgDisk, cfgCache, cfgLoad, cfgLoads, cfgLog>>

raceVars == <<raceFs, racePass>>

vars == <<schedVars, aliasVars, genVars, xfVars, scanVars, impVars, bldVars, cfgVars,
          raceVars>>

\* the variables of the other components, which an action of a component
\* leaves alone
NotOfSched == <<aliasVars, genVars, xfVars, scanVars, impVars, bldVars, cfgVars, raceVars>>
NotOfAlias == <<schedVars, genVars, xfVars, scanVars, impVars, bldVars, cfgVars, raceVars>>
NotOfGen == <<schedVars, aliasVars, xfVars, scanVars, impVars, bldVars, cfgVars, raceVars>>
NotOfXf == <<schedVars, aliasVars, genVars, scanVars, impVars, bldVars, cfgVars, raceVars>>
NotOfScan == <<schedVars, aliasVars, genVars, xfVars, impVars, bldVars, cfgVars, raceVars>>
NotOfImp == <<schedVars, aliasVars, genVars, xfVars, scanVars, bldVars, cfgVars, raceVars>>
NotOfBld == <<schedVars, aliasVars, genVars, xfVars, scanVars, impVars, cfgVars, raceVars>>
NotOfCfg == <<schedVars, aliasVars, genVars, xfVars, scanVars, impVars, bldVars, raceVars>>
NotOfRace == <<schedVars, aliasVars, genVars, xfVars, scanVars, impVars, bldVars, cfgVars>>

(***************************************************************************)
(* Bounds                                                                  *)
(***************************************************************************)
\* how many times the external cron-sleep primitive is let to return
MaxWakeups == 4
\* how many keys the "paths" object of the compiler configuration has at most
MaxAliasEntries == 2
\* how many call sites a list passed to generateWrapperFiles has at most
MaxCalls == 2
\* how many generation passes run against the project
MaxPasses == 2
\* how many names the package import of a source file lists at most
MaxImportNames == 3
\* how many cronStart statements a source file has at most
MaxStatements == 2
\* how many files a scan is given at most
MaxFiles == 2
\* calls of readTsconfigPaths in a process
MaxLoads == 3

(***************************************************************************)
(* General helpers                                                         *)
(***************************************************************************)
Count(seq, x) == Cardinality({i \in DOMAIN seq : seq[i] = x})

\* a call of Op as JS makes it: the argument is evaluated, then the body
\* runs on its value
Call(Op(_), arg) == CHOOSE result \in {Op(value) : value \in {arg}} : TRUE

(***************************************************************************)
(* Text as atom sequences                                                  *)
(***************************************************************************)
\* JS null / undefined for a string-valued result
NULL == <<"<null>">>

\* the concatenation of seqs[lo], ..., seqs[hi], by halves
RECURSIVE FlattenRange(_, _, _)
FlattenRange(seqs, lo, hi) ==
    IF lo > hi THEN <<>>
    ELSE IF lo = hi THEN seqs[lo]
    ELSE FlattenRange(seqs, lo, (lo + hi) \div 2)
           \o FlattenRange(seqs, (lo + hi) \div 2 + 1, hi)

Flatten(seqs) == FlattenRange(<<>> \o seqs, 1, Len(seqs))

\* String.prototype.startsWith
StartsWith(s, prefix) ==
    /\ Len(prefix) <= Len(s)
    /\ SubSeq(s, 1, Len(prefix)) = prefix

\* String.prototype.endsWith
EndsWith(s, suffix) ==
    /\ Len(suffix) <= Len(s)
    /\ SubSeq(s, Len(s) - Len(suffix) + 1, Len(s)) = suffix

\* String.prototype.slice(n) for n >= 0 (n counted in atoms)
SliceFrom(s, n) == SubSeq(s, n + 1, Len(s))

\* String.prototype.split(sep) for a one-atom separator: the runs of atoms
\* between its occurrences; cuts are the positions of the separator, with
\* one before the text and one after it
SplitCuts(s, sep) == {0, Len(s) + 1} \cup {i \in DOMAIN s : s[i] = sep}

NthCut(cuts, n) == CHOOSE c \in cuts : Cardinality({d \in cuts : d < c}) = n - 1

SplitAtCuts(s, cuts) ==
    <<>> \o [n \in 1..(Cardinality(cuts) - 1) |->
                SubSeq(s, NthCut(cuts, n) + 1, NthCut(cuts, n + 1) - 1)]

SplitOn(s, sep) == Call(LAMBDA cuts : SplitAtCuts(s, cuts), SplitCuts(s, sep))

\* Array.prototype.join(sep) for a one-atom separator
JoinWith(parts, sep) ==
    Flatten([i \in DOMAIN parts |-> IF i = 1 THEN parts[i] ELSE <<sep>> \o parts[i]])

\* String.prototype.indexOf(sub), 1-based; 0 when absent
IndexOfSeq(s, sub) ==
    LET hits == {i \in 1..(Len(s) - Len(sub) + 1) : SubSeq(s, i, i + Len(sub) - 1) = sub}
    IN  IF hits = {} THEN 0 ELSE CHOOSE i \in hits : \A j \in hits : i <= j

\* String.prototype.includes(sub)
Includes(s, sub) == IndexOfSeq(s, sub) # 0

\* str.replace("*", by) and str.replace(/\\/g, "/"): the paths of the model
\* hold no "$" and no backslash, so `by` is inserted as it is
ReplaceFirstAtom(s, atom, by) ==
    LET i == IndexOfSeq(s, <<atom>>)
    IN  IF i = 0 THEN s ELSE SubSeq(s, 1, i - 1) \o by \o SubSeq(s, i + 1, Len(s))

BackslashToSlash(s) == [i \in DOMAIN s |-> IF s[i] = "\\" THEN "/" ELSE s[i]]

(***************************************************************************)
(* node:path (POSIX)                                                       *)
(***************************************************************************)
\* the segments of a path: the runs of atoms between "/" atoms
SplitSlash(s) == SplitOn(s, "/")

\* normalizeString: drop "" and ".", let ".." remove the segment before it
RECURSIVE NormalizeSegments(_, _)
NormalizeSegments(segs, acc) ==
    IF segs = <<>> THEN acc
    ELSE LET h == Head(segs)
         IN  IF h = <<>> \/ h = <<".">> THEN NormalizeSegments(Tail(segs), acc)
             ELSE IF h = <<".", ".">>
                  THEN NormalizeSegments(Tail(segs),
                           IF acc = <<>> THEN acc ELSE SubSeq(acc, 1, Len(acc) - 1))
                  ELSE NormalizeSegments(Tail(segs), Append(acc, h))

AbsSegments(p) == Call(LAMBDA segs : NormalizeSegments(segs, <<>>), SplitSlash(p))

JoinSlash(segs) == JoinWith(segs, "/")

AbsFromSegments(segs) == <<"/">> \o JoinSlash(segs)

\* path.resolve(from, to) with `from` absolute: an absolute `to` wins; the
\* result is normalized and has no trailing slash
PathNormalize(p) == Call(AbsFromSegments, AbsSegments(p))

PathResolve(from, to) ==
    Call(PathNormalize, IF StartsWith(to, <<"/">>) THEN to ELSE from \o <<"/">> \o to)

\* path.join(a, b): concatenate and normalize (a absolute)
PathJoin(a, b) == Call(PathNormalize, a \o <<"/">> \o b)

\* path.dirname of an absolute normalized path
PathDirname(p) ==
    LET segs == AbsSegments(p)
    IN  IF Len(segs) <= 1 THEN <<"/">>
        ELSE AbsFromSegments(SubSeq(segs, 1, Len(segs) - 1))

\* path.basename of an absolute normalized path
PathBasename(p) ==
    LET segs == AbsSegments(p)
    IN  IF segs = <<>> THEN <<>> ELSE segs[Len(segs)]

\* path.relative(from, to): ".." for each segment of `from` below the common
\* ancestor, then the rest of `to`; "" when both are the same path
PathRelative(from, to) ==
    LET f == AbsSegments(from)
        t == AbsSegments(to)
        same == {n \in 0..Len(f) : n <= Len(t) /\ SubSeq(f, 1, n) = SubSeq(t, 1, n)}
        n == CHOOSE m \in same : \A k \in same : k <= m
        ups == [i \in 1..(Len(f) - n) |-> <<".", ".">>]
    IN  JoinSlash(ups \o SubSeq(t, n + 1, Len(t)))

(***************************************************************************)
(* PathResolver (scanner.ts): TsconfigPaths is [baseUrl, paths], paths the  *)
(* entries of the "paths" object in insertion order, each                  *)
(* [pattern, mappings]; baseUrl is NULL when the config sets none          *)
(***************************************************************************)
\* const { baseUrl = ".", paths } = tsconfigPaths
BaseUrlOf(cfg) == IF cfg.baseUrl = NULL THEN <<".">> ELSE cfg.baseUrl

\* new RegExp("^" + pattern.replace(/\*/g, "(.*)") + "$") tested on s, for a
\* pattern of at most one wildcard and no other regex metacharacter
GlobMatches(pattern, s) ==
    LET i == IndexOfSeq(pattern, <<"*">>)
    IN  IF i = 0 THEN s = pattern
        ELSE LET pre == SubSeq(pattern, 1, i - 1)
                 post == SubSeq(pattern, i + 1, Len(pattern))
             IN  /\ Len(s) >= Len(pre) + Len(post)
                 /\ StartsWith(s, pre)
                 /\ EndsWith(s, post)

\* match[1] || "" of that match
GlobCapture(pattern, s) ==
    LET i == IndexOfSeq(pattern, <<"*">>)
    IN  IF i = 0 THEN <<>>
        ELSE SubSeq(s, i, Len(s) - (Len(pattern) - i))

\* mappings[0], NULL when there is none (or it is the empty string)
FirstMapping(mappings) ==
    IF mappings = <<>> \/ mappings[1] = <<>> THEN NULL ELSE mappings[1]

\* the index of the entry resolvePathAlias returns from; 0 when it returns null
RECURSIVE ResolveEntryFrom(_, _, _)
ResolveEntryFrom(importPath, paths, k) ==
    IF k > Len(paths) THEN 0
    ELSE IF /\ GlobMatches(paths[k].pattern, importPath)
            /\ FirstMapping(paths[k].mappings) # NULL
         THEN k
         ELSE ResolveEntryFrom(importPath, paths, k + 1)

resolvePathAlias(importPath, workingDir, cfg) ==
    LET absoluteBaseUrl == PathResolve(workingDir, BaseUrlOf(cfg))
        k == ResolveEntryFrom(importPath, cfg.paths, 1)
    IN  IF k = 0 THEN NULL
        ELSE LET captured == GlobCapture(cfg.paths[k].pattern, importPath)
                 resolvedPath == ReplaceFirstAtom(FirstMapping(cfg.paths[k].mappings),
                                                  "*", captured)
             IN  PathResolve(absoluteBaseUrl, resolvedPath)

\* resolve(absoluteBaseUrl, mapping.replace("*", "")).replace(/\\/g, "/")
AbsoluteMappingBase(entry, workingDir, cfg) ==
    BackslashToSlash(
        PathResolve(PathResolve(workingDir, BaseUrlOf(cfg)),
                    ReplaceFirstAtom(FirstMapping(entry.mappings), "*", <<>>)))

\* the index of the entry absolutePathToAlias returns from; 0 when it returns null
RECURSIVE ContainingEntryFrom(_, _, _, _)
ContainingEntryFrom(normalizedPath, workingDir, cfg, k) ==
    IF k > Len(cfg.paths) THEN 0
    ELSE IF /\ FirstMapping(cfg.paths[k].mappings) # NULL
            /\ StartsWith(normalizedPath, AbsoluteMappingBase(cfg.paths[k], workingDir, cfg))
         THEN k
         ELSE ContainingEntryFrom(normalizedPath, workingDir, cfg, k + 1)

absolutePathToAlias(absolutePath, workingDir, cfg) ==
    LET normalizedPath == BackslashToSlash(absolutePath)
        k == ContainingEntryFrom(normalizedPath, workingDir, cfg, 1)
    IN  IF k = 0 THEN NULL
        ELSE LET base == AbsoluteMappingBase(cfg.paths[k], workingDir, cfg)
                 remainder == SliceFrom(normalizedPath, Len(base))
                 aliasPrefix == ReplaceFirstAtom(cfg.paths[k].pattern, "*", <<>>)
             IN  aliasPrefix \o remainder

commonAliases == {<<"@", "/">>, <<"~", "/">>, <<"#", "/">>, <<"src", "/">>}

isPathAlias(importPath, cfg) ==
    IF StartsWith(importPath, <<".">>) THEN FALSE
    ELSE \/ \E k \in DOMAIN cfg.paths : GlobMatches(cfg.paths[k].pattern, importPath)
         \/ \E a \in commonAliases : StartsWith(importPath, a)

(***************************************************************************)
(* Alias round trip: the inputs and the two calls                          *)
(***************************************************************************)
\* the project root of the model, "/p"
WorkingDir == <<"/", "p">>

AliasEntries == {
    [pattern |-> <<"@", "/", "*">>,      mappings |-> << <<".", "/", "src", "/", "*">> >>],
    [pattern |-> <<"~", "/", "*">>,      mappings |-> << <<".", "/", "*">>, <<"lib", "/", "*">> >>],
    [pattern |-> <<"lib">>,              mappings |-> << <<".", "/", "src", "/", "lib", "/", "index">> >>],
    [pattern |-> <<"@", "c", "/", "*">>, mappings |-> << <<"src", "/", "c", "/", "*", "/", "index">> >>],
    [pattern |-> <<"#", "/", "*">>,      mappings |-> <<>>] }

BaseUrls == {NULL, <<".">>, <<".", "/", "app">>}

\* the "paths" objects of at most MaxAliasEntries keys (keys are distinct)
AliasPathLists ==
    {ps \in UNION {[1..n -> AliasEntries] : n \in 0..MaxAliasEntries} :
        \A i, j \in DOMAIN ps : i # j => ps[i].pattern # ps[j].pattern}

AliasTables == {[baseUrl |-> b, paths |-> ps] : b \in BaseUrls, ps \in AliasPathLists}

SpecifierHeads == {<<"@", "/">>, <<"~", "/">>, <<"@", "c", "/">>, <<"#", "/">>}

SpecifierTails == {
    <<>>,
    <<"x">>,
    <<"lib", "/", "x">>,
    <<"x", "/">>,
    <<"index", "/", "x">>,
    <<".", ".", "/", "src", "foo", "/", "x">> }

Specifiers ==
    {h \o t : h \in SpecifierHeads, t \in SpecifierTails} \cup {<<"lib">>, <<"react">>}

AliasOff ==
    /\ aliasCfg = [baseUrl |-> NULL, paths |-> <<>>]
    /\ aliasIn = <<>>
    /\ aliasAbs = NULL
    /\ aliasOut = NULL
    /\ aliasPc = "off"

AliasInit ==
    /\ aliasCfg \in AliasTables
    /\ aliasIn \in Specifiers
    /\ aliasAbs = NULL
    /\ aliasOut = NULL
    /\ aliasPc = "resolve"

\* resolveAlias(specifier, table)
AliasResolve ==
    /\ aliasPc = "resolve"
    /\ aliasAbs' = resolvePathAlias(aliasIn, WorkingDir, aliasCfg)
    /\ aliasPc' = "toAlias"
    /\ UNCHANGED <<aliasCfg, aliasIn, aliasOut>>
    /\ UNCHANGED NotOfAlias

\* toAlias(that path, table), for a path resolveAlias produced
AliasBack ==
    /\ aliasPc = "toAlias"
    /\ aliasAbs # NULL
    /\ aliasOut' = absolutePathToAlias(aliasAbs, WorkingDir, aliasCfg)
    /\ aliasPc' = "done"
    /\ UNCHANGED <<aliasCfg, aliasIn, aliasAbs>>
    /\ UNCHANGED NotOfAlias

AliasNext == AliasResolve \/ AliasBack

(***************************************************************************)
(* The filesystem: fs.dirs is the set of directories, fs.files the set of  *)
(* [path, content] of the regular files (one per path)                     *)
(***************************************************************************)
\* p is dir itself or lies below it
IsUnder(p, dir) == p = dir \/ StartsWith(p, dir \o <<"/">>)

\* dir and its ancestors up to the root
Ancestors(dir) ==
    LET segs == AbsSegments(dir)
    IN  {AbsFromSegments(SubSeq(segs, 1, n)) : n \in 0..Len(segs)}

\* existsSync(path)
FsExists(fs, path) == path \in fs.dirs \/ \E f \in fs.files : f.path = path

\* the entries directly inside dir (paths of the filesystem are normalized)
FsChildren(fs, dir) ==
    {p \in fs.dirs \cup {f.path : f \in fs.files} :
        /\ StartsWith(p, dir \o <<"/">>)
        /\ \A i \in (Len(dir) + 2)..Len(p) : p[i] # "/"}

\* a delete that removes the directories and leaves the files
FsRmLeavesFiles(fs, dir, keep) ==
    [dirs  |-> {d \in fs.dirs : ~ IsUnder(d, dir)}, files |-> fs.files]

\* rm(dir, { recursive: true, force: true }); keep = {} when it succeeds,
\* else the children of dir whose subtrees it failed to remove
FsRm(fs, dir, keep) ==
    LET gone(p) == IsUnder(p, dir) /\ ~ (\E k \in keep : IsUnder(p, k) \/ p = dir)
    IN  [dirs  |-> {d \in fs.dirs : ~ gone(d)},
         files |-> {f \in fs.files : ~ gone(f.path)}]

\* a filesystem call of a pass; parent and ancestors are those of the path
FsOp(op, path, content) ==
    [op |-> op, path |-> path, content |-> content,
     parent |-> PathDirname(path), ancestors |-> Ancestors(path)]

\* mkdir(dir, { recursive: true })
FsMkdirP(fs, op) == [fs EXCEPT !.dirs = @ \cup op.ancestors]

\* writeFile is possible when the parent directory exists (else ENOENT)
FsCanWrite(fs, op) == op.parent \in fs.dirs /\ op.path \notin fs.dirs

\* writeFile(path, content)
FsWrite(fs, op) ==
    [fs EXCEPT !.files = {f \in @ : f.path # op.path}
                             \cup {[path |-> op.path, content |-> op.content]}]

FsContentAt(fs, path) ==
    IF \E f \in fs.files : f.path = path
    THEN (CHOOSE f \in fs.files : f.path = path).content
    ELSE NULL

(***************************************************************************)
(* Generator (generator.ts)                                                *)
(***************************************************************************)
CRON_WRAPPER_DIR_NAME == <<"cron-wrappers">>

getCronWrapperDir(fs, workingDir) ==
    LET srcAppDir == PathJoin(workingDir, <<"src", "/", "app">>)
        appDir == PathJoin(workingDir, <<"app">>)
    IN  IF FsExists(fs, srcAppDir) THEN PathJoin(srcAppDir, CRON_WRAPPER_DIR_NAME)
        ELSE IF FsExists(fs, appDir) THEN PathJoin(appDir, CRON_WRAPPER_DIR_NAME)
        ELSE PathJoin(srcAppDir, CRON_WRAPPER_DIR_NAME)

\* const key = `${call.workflowFunctionName}:${call.importPath}`
CallKey(call) == call.workflowFunctionName \o <<":">> \o call.importPath

\* uniqueWorkflows: the first call of each key, in insertion order
RECURSIVE UniqueWorkflowsFrom(_, _)
UniqueWorkflowsFrom(calls, acc) ==
    IF calls = <<>> THEN acc
    ELSE UniqueWorkflowsFrom(Tail(calls),
             IF \E i \in DOMAIN acc : CallKey(acc[i]) = CallKey(Head(calls))
             THEN acc ELSE Append(acc, Head(calls)))

UniqueWorkflows(calls) == UniqueWorkflowsFrom(calls, <<>>)

\* const wrapperName = `__cron__${workflowFunctionName}`
WrapperNameWithOrigin(call) ==
    <<"__cron__">> \o call.workflowFunctionName \o <<"_">> \o call.importPath
WrapperName(call) == <<"__cron__">> \o call.workflowFunctionName

\* const triggerDirName = `trigger-${workflowFunctionName}`
TriggerDirNameOfSourceFile(call) == <<"trigger-">> \o PathBasename(call.sourceFile)
TriggerDirName(call) == <<"trigger-">> \o call.workflowFunctionName

WrapperDir(call, cronDir) == PathJoin(cronDir, TriggerDirName(call))

WorkflowFilePath(call, cronDir) == PathJoin(WrapperDir(call, cronDir), <<"workflow", ".", "ts">>)

WrapperInfoOf(call, cronDir) ==
    [wrapperName |-> WrapperName(call),
     triggerDirName |-> TriggerDirName(call),
     workflowFilePath |-> WorkflowFilePath(call, cronDir)]

\* the import of a relative origin, once it is resolved to absoluteTarget:
\* the alias when there is one, else the path from the generated directory
ImportOfTarget(generatedDir, absoluteTarget, workingDir, cfg) ==
    LET aliasImport == absolutePathToAlias(absoluteTarget, workingDir, cfg)
        relativePath == BackslashToSlash(PathRelative(generatedDir, absoluteTarget))
    IN  IF aliasImport # NULL /\ aliasImport # <<>> THEN aliasImport
        ELSE IF ~ StartsWith(relativePath, <<".">>)
             THEN <<".", "/">> \o relativePath
             ELSE relativePath

\* the three cases of calculateRelativeImport
calculateRelativeImportAlwaysResolves(generatedFilePath, originalImportPath, sourceFile, workingDir, cfg) ==
    Call(LAMBDA absoluteTarget :
             ImportOfTarget(PathDirname(generatedFilePath), absoluteTarget,
                            workingDir, cfg),
         PathResolve(PathDirname(sourceFile), originalImportPath))
calculateRelativeImport(generatedFilePath, originalImportPath, sourceFile, workingDir, cfg) ==
    IF isPathAlias(originalImportPath, cfg) THEN originalImportPath
    ELSE IF StartsWith(originalImportPath, <<".">>)
    THEN Call(LAMBDA absoluteTarget :
                  ImportOfTarget(PathDirname(generatedFilePath), absoluteTarget,
                                 workingDir, cfg),
              PathResolve(PathDirname(sourceFile), originalImportPath))
    ELSE originalImportPath

\* the parts of the workflow.ts template that depend on the call: the step's
\* dynamic import of the scheduled function and the exported scheduler
generateCronWorkflowContent(wrapperName, workflowFunctionName, importPath) ==
    <<"const", "{">> \o workflowFunctionName \o <<"}", "=", "await", "import", "(", "\"">>
        \o importPath \o <<"\"", ")", "\n", "export", "async", "function", " ">>
        \o wrapperName \o <<"(", "config", ")">>

WorkflowContentOf(call, cronDir, workingDir, cfg) ==
    Call(LAMBDA importPath :
             generateCronWorkflowContent(WrapperName(call), call.workflowFunctionName,
                                         importPath),
         calculateRelativeImport(WorkflowFilePath(call, cronDir), call.importPath,
                                 call.sourceFile, workingDir, cfg))

\* info.wrapperName.replace(/^__cron__/, '')
StripCronPrefixKeepsName(wrapperName) == wrapperName
StripCronPrefix(wrapperName) ==
    IF StartsWith(wrapperName, <<"__cron__">>) THEN SliceFrom(wrapperName, 1) ELSE wrapperName

\* the manifest object: manifest[workflowName] = {...} for each info; a key
\* assigned again keeps its place and takes the new value
RECURSIVE ManifestFrom(_, _)
ManifestFrom(infos, acc) ==
    IF infos = <<>> THEN acc
    ELSE LET info == Head(infos)
             entry == [key |-> StripCronPrefix(info.wrapperName),
                       wrapperName |-> info.wrapperName,
                       triggerDir |-> info.triggerDirName]
         IN  ManifestFrom(Tail(infos),
                 IF \E i \in DOMAIN acc : acc[i].key = entry.key
                 THEN [i \in DOMAIN acc |-> IF acc[i].key = entry.key THEN entry ELSE acc[i]]
                 ELSE Append(acc, entry))

ManifestOf(infos) == ManifestFrom(infos, <<>>)

\* JSON.stringify(manifest, null, 2)
ManifestContent(infos) ==
    LET m == ManifestOf(infos)
    IN  <<"{">> \o Flatten([i \in DOMAIN m |->
            <<"\"">> \o m[i].key \o <<"\"", ":", "{", "\"", "wrapperName", "\"", ":", "\"">>
              \o m[i].wrapperName \o <<"\"", ",", "\"", "triggerDir", "\"", ":", "\"">>
              \o m[i].triggerDir \o <<"\"", "}">>
              \o (IF i < Len(m) THEN <<",">> ELSE <<>>)]) \o <<"}">>

\* the discovery route: one import per info, the re-export list, the GET list
RouteContent(infos) ==
    Flatten([i \in DOMAIN infos |->
        <<"import", "{">> \o infos[i].wrapperName \o <<"}", "from", "\"", ".", "/">>
          \o infos[i].triggerDirName \o <<"/", "workflow", "\"", "\n">>])
    \o <<"export", "{">>
    \o Flatten([i \in DOMAIN infos |->
          infos[i].wrapperName \o (IF i < Len(infos) THEN <<",">> ELSE <<>>)])
    \o <<"}">>

\* generateWrapperDirectory: its filesystem calls
WrapperDirectoryOps(call, cronDir, workingDir, cfg) ==
    << FsOp("mkdir", WrapperDir(call, cronDir), <<>>),
       FsOp("write", WorkflowFilePath(call, cronDir),
            WorkflowContentOf(call, cronDir, workingDir, cfg)) >>

\* generateWrapperFiles: its filesystem calls, in order
GeneratePlan(calls, cronDir, workingDir, cfg) ==
    LET unique == UniqueWorkflows(calls)
        infos == [i \in DOMAIN unique |-> WrapperInfoOf(unique[i], cronDir)]
    IN  << FsOp("rm", cronDir, <<>>),
           FsOp("mkdir", cronDir, <<>>),
           FsOp("write", PathJoin(cronDir, <<".", "gitignore">>), <<"*", "\n">>) >>
        \o Flatten([i \in DOMAIN unique |->
               WrapperDirectoryOps(unique[i], cronDir, workingDir, cfg)])
        \o << FsOp("write", PathJoin(cronDir, <<"manifest", ".", "json">>), ManifestContent(infos)),
              FsOp("write", PathJoin(cronDir, <<"route", ".", "ts">>), RouteContent(infos)) >>

\* try { await rm(...) } catch { }: a failed rm is swallowed and the pass goes on
RmErrorPropagates == FALSE

\* whether op number i of the plan throws: the environment fails it (failAt),
\* or a write finds no parent directory; a throwing rm counts only if its
\* error is let out of the try block
OpThrows(fs, op, i, failAt, rmKeep) ==
    IF op.op = "rm" THEN rmKeep # {} /\ RmErrorPropagates
    ELSE \/ i = failAt
         \/ op.op = "write" /\ ~ FsCanWrite(fs, op)

OpApply(fs, op, rmKeep) ==
    IF op.op = "rm" THEN FsRm(fs, op.path, rmKeep)
    ELSE IF op.op = "mkdir" THEN FsMkdirP(fs, op)
    ELSE FsWrite(fs, op)

\* run the plan from op i on; thrownAt is the op that threw, 0 when none did
RECURSIVE RunPlan(_, _, _, _, _)
RunPlan(fs, plan, i, failAt, rmKeep) ==
    IF i > Len(plan) THEN [fs |-> fs, thrownAt |-> 0]
    ELSE IF OpThrows(fs, plan[i], i, failAt, rmKeep)
         THEN [fs |-> IF plan[i].op = "rm" THEN OpApply(fs, plan[i], rmKeep) ELSE fs,
               thrownAt |-> i]
         ELSE RunPlan(OpApply(fs, plan[i], rmKeep), plan, i + 1, failAt, rmKeep)

\* wrapperMap.set(call.workflowFunctionName, result.wrapperName), in order
RECURSIVE WrapperMapFrom(_, _)
WrapperMapFrom(unique, acc) ==
    IF unique = <<>> THEN acc
    ELSE LET e == [key |-> Head(unique).workflowFunctionName,
                   value |-> WrapperName(Head(unique))]
         IN  WrapperMapFrom(Tail(unique),
                 IF \E i \in DOMAIN acc : acc[i].key = e.key
                 THEN [i \in DOMAIN acc |-> IF acc[i].key = e.key THEN e ELSE acc[i]]
                 ELSE Append(acc, e))

(***************************************************************************)
(* Generation passes: the project, the call-site lists and the passes      *)
(***************************************************************************)
FnF == <<"f">>
FnG == <<"g">>
PageFile == <<"/", "p", "/", "src", "/", "app", "/", "page", ".", "ts">>
JobsFile == <<"/", "p", "/", "src", "/", "jobs", "/", "run", ".", "ts">>
RelWf == <<".", "/", "wf">>
AliasWf == <<"@", "/", "lib", "/", "wf">>

CallSite(fn, origin, file) ==
    [workflowFunctionName |-> fn, importPath |-> origin, sourceFile |-> file]

\* f from "./wf" in two files, f from another origin, and g
GenCallSites == {
    CallSite(FnF, RelWf, PageFile),
    CallSite(FnF, RelWf, JobsFile),
    CallSite(FnF, AliasWf, PageFile),
    CallSite(FnG, RelWf, PageFile) }

GenCallLists == UNION {[1..n -> GenCallSites] : n \in 0..MaxCalls}

GenTables == {
    [baseUrl |-> NULL, paths |-> <<>>],
    [baseUrl |-> NULL,
     paths |-> << [pattern |-> <<"@", "/", "*">>,
                   mappings |-> << <<".", "/", "src", "/", "*">> >>] >>] }

\* the project before any pass: with src/app, with app only, with neither
ProjectLayouts == {
    {PathJoin(WorkingDir, <<"src", "/", "app">>)},
    {PathJoin(WorkingDir, <<"app">>)},
    {} }

FsOfLayout(layout) ==
    [dirs |-> Ancestors(WorkingDir) \cup UNION {Ancestors(d) : d \in layout},
     files |-> {}]

NoPass ==
    [status |-> "none", calls |-> <<>>, cronDir |-> <<>>, rmFailed |-> FALSE,
     thrownAt |-> 0, generatedFiles |-> <<>>, wrapperInfos |-> <<>>,
     wrapperMap |-> <<>>]

GenOff ==
    /\ genFs = [dirs |-> {}, files |-> {}]
    /\ genCfg = [baseUrl |-> NULL, paths |-> <<>>]
    /\ genLast = NoPass
    /\ genPasses = 0

GenInit ==
    /\ genFs \in {FsOfLayout(l) : l \in ProjectLayouts}
    /\ genCfg \in GenTables
    /\ genLast = NoPass
    /\ genPasses = 0

\* the wrapper directory of each layout
CronDirs == {getCronWrapperDir(FsOfLayout(l), WorkingDir) : l \in ProjectLayouts}

\* what a pass computes from its arguments alone: its filesystem calls and,
\* when none throws, its results
PassOf(calls, cronDir, cfg) ==
    LET unique == UniqueWorkflows(calls)
        infos == [i \in DOMAIN unique |-> WrapperInfoOf(unique[i], cronDir)]
    IN  [plan |-> GeneratePlan(calls, cronDir, WorkingDir, cfg),
         generatedFiles |-> [i \in DOMAIN infos |-> infos[i].workflowFilePath],
         wrapperInfos |-> infos,
         wrapperMap |-> WrapperMapFrom(unique, <<>>)]

\* PassOf, computed once for every argument of the model
PassTable ==
    [args \in GenCallLists \X CronDirs \X GenTables |->
        PassOf(args[1], args[2], args[3])] @@ <<>>

\* the outcomes the environment can give the recursive delete: it removes
\* everything ({}), or it fails and leaves the subtree of one subdirectory or
\* of every child of the directory
RmOutcomes(fs, dir) ==
    LET children == FsChildren(fs, dir)
    IN  {{}} \cup {{c} : c \in children \cap fs.dirs} \cup {children}

\* generateWrapperFiles(calls, workingDir), as one pass; failAt is the mkdir
\* or writeFile call the environment fails (0: none), rmKeep what a failing
\* rm leaves ({}: rm succeeds)
GenerateWrapperFiles(calls, cronDir, failAt, rmKeep) ==
    \E pass \in {PassTable[<<calls, cronDir, genCfg>>]} :
      \E run \in {RunPlan(genFs, pass.plan, 1, failAt, rmKeep)} :
        \E ok \in {run.thrownAt = 0} :
          /\ genFs' = run.fs
          /\ genLast' =
                [status |-> IF ok THEN "ok" ELSE "error",
                 calls |-> calls,
                 cronDir |-> cronDir,
                 rmFailed |-> rmKeep # {},
                 thrownAt |-> run.thrownAt,
                 generatedFiles |-> IF ok THEN pass.generatedFiles ELSE <<>>,
                 wrapperInfos |-> IF ok THEN pass.wrapperInfos ELSE <<>>,
                 wrapperMap |-> IF ok THEN pass.wrapperMap ELSE <<>>]
          /\ genPasses' = genPasses + 1
          /\ UNCHANGED genCfg

\* a pass in which every mkdir and writeFile the environment is asked for
\* succeeds; the recursive delete may fail
GenerateRun ==
    /\ genPasses < MaxPasses
    /\ \E cronDir \in {getCronWrapperDir(genFs, WorkingDir)} :
         \E rmKeep \in RmOutcomes(genFs, cronDir) :
           \E calls \in GenCallLists :
             GenerateWrapperFiles(calls, cronDir, 0, rmKeep)
    /\ UNCHANGED NotOfGen

\* the compiler configuration is edited between passes
EditTsconfig ==
    /\ genPasses < MaxPasses
    /\ genCfg' \in GenTables \ {genCfg}
    /\ UNCHANGED <<genFs, genLast, genPasses>>
    /\ UNCHANGED NotOfGen

GenNext == GenerateRun \/ EditTsconfig

(***************************************************************************)
(* The synthesized scheduler module (generateCronWorkflowContent)          *)
(***************************************************************************)
OnErrorValues == {"continue", "stop", "omitted"}

\* const { args, cron, timezone, onError = "continue" } = config
DestructureOnErrorDefaultStop(cfg) == IF cfg = "omitted" THEN "stop" ELSE cfg
DestructureOnError(cfg) == IF cfg = "omitted" THEN "continue" ELSE cfg

\* catch (error) { if (onError === "stop") { ...; throw error } ...continuing }
CatchStartErrorNeverThrows(onError) == "continue"
CatchStartError(onError) == IF onError = "stop" THEN "throw" ELSE "continue"

\* config.args of the model
SchedArgLists == {<<>>, <<"a">>, <<"a", "b">>}

\* const run = await start(${workflowFunctionName}, args)
TriggerStepStartDropsArgs(workflowFunctionName, args) ==
    [fn |-> workflowFunctionName, args |-> <<>>]
TriggerStepStart(workflowFunctionName, args) ==
    [fn |-> workflowFunctionName, args |-> args]

SchedOff ==
    /\ schedCfg = "omitted"
    /\ schedOnError = "unset"
    /\ schedPc = "off"
    /\ schedThrown = "none"
    /\ schedEvents = <<>>
    /\ schedFn = <<>>
    /\ schedArgs = <<>>
    /\ schedStarts = <<>>

SchedInit ==
    /\ schedCfg \in OnErrorValues
    /\ schedOnError = "unset"
    /\ schedPc = "entry"
    /\ schedThrown = "none"
    /\ schedEvents = <<>>
    /\ schedFn \in {FnF, FnG}
    /\ schedArgs \in SchedArgLists
    /\ schedStarts = <<>>

\* entry of __cron__<fn>: destructure, log twice, first cronSleep call
SchedEnter ==
    /\ schedPc = "entry"
    /\ schedOnError' = DestructureOnError(schedCfg)
    /\ schedEvents' = schedEvents \o <<"logStarted", "logSchedule", "sleep">>
    /\ schedPc' = "sleeping"
    /\ UNCHANGED <<schedCfg, schedThrown, schedFn, schedArgs, schedStarts>>
    /\ UNCHANGED NotOfSched

\* await cronSleep(...) resolves; the trigger step is called
SchedSleepReturns ==
    /\ schedPc = "sleeping"
    /\ Count(schedEvents, "start") < MaxWakeups
    /\ schedEvents' = schedEvents \o <<"start">>
    /\ schedStarts' = Append(schedStarts, TriggerStepStart(schedFn, schedArgs))
    /\ schedPc' = "starting"
    /\ UNCHANGED <<schedCfg, schedOnError, schedThrown, schedFn, schedArgs>>
    /\ UNCHANGED NotOfSched

\* cronSleep inside the try block: its rejection goes through the catch block
SchedSleepThrowsInsideTry ==
    /\ schedPc = "sleeping"
    /\ IF CatchStartError(schedOnError) = "throw"
       THEN /\ schedEvents' = schedEvents \o <<"sleepFailed">>
            /\ schedThrown' = "sleep"
            /\ schedPc' = "thrown"
       ELSE /\ schedEvents' = schedEvents \o <<"sleepFailed", "logContinuing", "sleep">>
            /\ schedThrown' = schedThrown
            /\ schedPc' = "sleeping"
    /\ Count(schedEvents, "sleepFailed") < MaxWakeups
    /\ UNCHANGED <<schedCfg, schedOnError, schedFn, schedArgs, schedStarts>>
    /\ UNCHANGED NotOfSched

\* await cronSleep(...) rejects: outside the try block, so it propagates
SchedSleepThrows ==
    /\ schedPc = "sleeping"
    /\ schedEvents' = schedEvents \o <<"sleepFailed">>
    /\ schedThrown' = "sleep"
    /\ schedPc' = "thrown"
    /\ UNCHANGED <<schedCfg, schedOnError, schedFn, schedArgs, schedStarts>>
    /\ UNCHANGED NotOfSched

\* the trigger step resolves: log the run id, loop back to cronSleep
SchedStartSucceeds ==
    /\ schedPc = "starting"
    /\ schedEvents' = schedEvents \o <<"startOk", "logTriggered", "sleep">>
    /\ schedPc' = "sleeping"
    /\ UNCHANGED <<schedCfg, schedOnError, schedThrown, schedFn, schedArgs, schedStarts>>
    /\ UNCHANGED NotOfSched

\* the trigger step rejects: the catch block
SchedStartFails ==
    /\ schedPc = "starting"
    /\ IF CatchStartError(schedOnError) = "throw"
       THEN /\ schedEvents' = schedEvents \o <<"startFailed", "logStopping">>
            /\ schedThrown' = "start"
            /\ schedPc' = "thrown"
       ELSE /\ schedEvents' = schedEvents \o <<"startFailed", "logContinuing", "sleep">>
            /\ schedThrown' = schedThrown
            /\ schedPc' = "sleeping"
    /\ UNCHANGED <<schedCfg, schedOnError, schedFn, schedArgs, schedStarts>>
    /\ UNCHANGED NotOfSched

SchedNext ==
    \/ SchedEnter
    \/ SchedSleepReturns
    \/ SchedSleepThrows
    \/ SchedStartSucceeds
    \/ SchedStartFails

(***************************************************************************)
(* Regular expressions over atom sequences.  A regular expression is a     *)
(* tree of nodes [t, a, s, n, rs]; matching is the backtracking search of  *)
(* the JS engine: ReMatch returns every way the node matches at offset i,  *)
(* in the engine's order of preference, so the first one is its match      *)
(***************************************************************************)
\* the atoms made of word characters only (\w)
WordAtoms == {
    "import", "from", "as", "const", "await", "type", "function", "export",
    "cronStart", "cronEnd", "cronSleep", "start", "my", "workflow", "api",
    "f", "g", "h", "x", "a", "b", "args", "opts", "cron", "tz", "other",
    "p", "src", "app", "page", "jobs", "run", "lib", "wf", "ts", "index",
    "__cron__", "__cron_", "__", "local", "CronOptions", "node_modules", "dep" }

\* \s
SpaceAtoms == {" ", "\n"}

ReNode(t, a, s, n, rs) == [t |-> t, a |-> a, s |-> s, n |-> n, rs |-> rs]

\* a literal atom
ReLit(a) == ReNode("lit", a, {}, 0, <<>>)
\* [abc] and [^abc]
ReIn(s) == ReNode("in", "", s, 0, <<>>)
ReNotIn(s) == ReNode("notin", "", s, 0, <<>>)
\* \w, \s, . and \b
ReWord == ReNode("word", "", {}, 0, <<>>)
ReSpace == ReIn(SpaceAtoms)
ReDot == ReNotIn({"\n"})
ReWordBoundary == ReNode("wb", "", {}, 0, <<>>)
\* ^ and $ under the m flag
ReLineStart == ReNode("bol", "", {}, 0, <<>>)
ReLineEnd == ReNode("eol", "", {}, 0, <<>>)
\* r1 r2 ..., r1|r2|..., r*, r+, r? and the capture group number n
ReSeq(rs) == ReNode("seq", "", {}, 0, rs)
ReAlt(rs) == ReNode("alt", "", {}, 0, rs)
ReStar(r) == ReNode("star", "", {}, 0, <<r>>)
RePlus(r) == ReNode("plus", "", {}, 0, <<r>>)
ReOpt(r) == ReNode("opt", "", {}, 0, <<r>>)
ReGroup(n, r) == ReNode("group", "", {}, n, <<r>>)

\* the capture groups before a match: three groups, none set
NoCaptures == << <<>>, <<>>, <<>> >>

ReAt(i, caps) == [pos |-> i, caps |-> caps]

\* whether atom a is in the atom class r (a literal, a set, \w)
ReAtomIn(r, a) ==
    CASE r.t = "lit" -> a = r.a
      [] r.t = "in" -> a \in r.s
      [] r.t = "notin" -> a \notin r.s
      [] r.t = "word" -> a \in WordAtoms

\* greedy r* for an atom class r (every starred expression of the source is
\* one): the longest run first, then the shorter ones down to the empty one
ReMatchStar(r, s, i, caps) ==
    LET n == CHOOSE m \in 0..(Len(s) - i) :
                 /\ \A j \in (i + 1)..(i + m) : ReAtomIn(r, s[j])
                 /\ (i + m < Len(s) => ~ ReAtomIn(r, s[i + m + 1]))
    IN  <<>> \o [k \in 1..(n + 1) |-> ReAt(i + n + 1 - k, caps)]

RECURSIVE ReMatch(_, _, _, _)
RECURSIVE ReMatchSeq(_, _, _, _, _)

\* the search starts at offset i with the captures caps
ReStart(i, caps) == <<ReAt(i, caps)>>

\* every match of node r at offset i of s (i atoms consumed), preferred first
ReMatch(r, s, i, caps) ==
    CASE r.t = "lit" ->
           IF i < Len(s) /\ s[i + 1] = r.a THEN <<ReAt(i + 1, caps)>> ELSE <<>>
      [] r.t = "in" ->
           IF i < Len(s) /\ s[i + 1] \in r.s THEN <<ReAt(i + 1, caps)>> ELSE <<>>
      [] r.t = "notin" ->
           IF i < Len(s) /\ s[i + 1] \notin r.s THEN <<ReAt(i + 1, caps)>> ELSE <<>>
      [] r.t = "word" ->
           IF i < Len(s) /\ s[i + 1] \in WordAtoms THEN <<ReAt(i + 1, caps)>> ELSE <<>>
      [] r.t = "wb" ->
           IF (i > 0 /\ s[i] \in WordAtoms) # (i < Len(s) /\ s[i + 1] \in WordAtoms)
           THEN <<ReAt(i, caps)>> ELSE <<>>
      [] r.t = "bol" ->
           IF i = 0 \/ s[i] = "\n" THEN <<ReAt(i, caps)>> ELSE <<>>
      [] r.t = "eol" ->
           IF i = Len(s) \/ s[i + 1] = "\n" THEN <<ReAt(i, caps)>> ELSE <<>>
      [] r.t = "seq" -> ReMatchSeq(r.rs, 1, Len(r.rs), s, ReStart(i, caps))
      [] r.t = "alt" ->
           Flatten([k \in DOMAIN r.rs |-> ReMatch(r.rs[k], s, i, caps)])
      [] r.t = "star" -> ReMatchStar(r.rs[1], s, i, caps)
      [] r.t = "plus" ->
           IF i < Len(s) /\ ReAtomIn(r.rs[1], s[i + 1])
           THEN ReMatchStar(r.rs[1], s, i + 1, caps) ELSE <<>>
      [] r.t = "opt" -> ReMatch(r.rs[1], s, i, caps) \o <<ReAt(i, caps)>>
      [] r.t = "group" ->
           LET inner == ReMatch(r.rs[1], s, i, caps)
           IN  <<>> \o [k \in DOMAIN inner |->
                   ReAt(inner[k].pos,
                        [inner[k].caps EXCEPT ![r.n] = SubSeq(s, i + 1, inner[k].pos)])]

\* rs[lo], ..., rs[hi] in sequence, continued from each of the matches
\* `heads` of what precedes them; the order of preference is kept: the
\* continuations of an earlier head come before those of a later one
ReMatchSeq(rs, lo, hi, s, heads) ==
    IF heads = <<>> \/ lo > hi THEN heads
    ELSE IF lo = hi
    THEN Flatten([j \in DOMAIN heads |-> ReMatch(rs[lo], s, heads[j].pos, heads[j].caps)])
    ELSE ReMatchSeq(rs, (lo + hi) \div 2 + 1, hi, s,
                    ReMatchSeq(rs, lo, (lo + hi) \div 2, s, heads))

NoMatch == [found |-> FALSE, start |-> 0, end |-> 0, caps |-> NoCaptures]

\* RegExp.prototype.exec with lastIndex = from: the leftmost match at or after
\* offset from; start and end are offsets (atoms before the match, atoms
\* before its end).  ReMatchesFrom has the matches at each offset,
\* ReLeftmost takes the preferred match at the first offset that has one
ReMatchesFrom(r, s, from) == [i \in from..Len(s) |-> ReMatch(r, s, i, NoCaptures)] @@ <<>>

ReFound(ms, i) ==
    [found |-> TRUE, start |-> i, end |-> ms[i][1].pos, caps |-> ms[i][1].caps]

ReLeftmost(ms) ==
    IF \A i \in DOMAIN ms : ms[i] = <<>> THEN NoMatch
    ELSE ReFound(ms, CHOOSE i \in DOMAIN ms :
                         /\ ms[i] # <<>>
                         /\ \A j \in DOMAIN ms : j < i => ms[j] = <<>>)

ReExec(r, s, from) == Call(ReLeftmost, ReMatchesFrom(r, s, from))

\* RegExp.prototype.test
ReTest(r, s) == ReExec(r, s, 0).found

\* the matches of a g-flagged expression, left to right (exec loop, matchAll)
RECURSIVE ReMatchAllFrom(_, _, _)
ReMatchAllFrom(r, s, from) ==
    LET m == ReExec(r, s, from)
    IN  IF ~ m.found THEN <<>>
        ELSE <<m>> \o ReMatchAllFrom(r, s, IF m.end > m.start THEN m.end ELSE m.end + 1)

ReMatchAll(r, s) == ReMatchAllFrom(r, s, 0)

\* the text of a match
ReMatched(s, m) == SubSeq(s, m.start + 1, m.end)

\* a replacement template: literal text and $n group references
TplText(text) == [g |-> 0, text |-> text]
TplGroup(n) == [g |-> n, text |-> <<>>]

TplExpand(tpl, caps) ==
    Flatten([k \in DOMAIN tpl |-> IF tpl[k].g = 0 THEN tpl[k].text ELSE caps[tpl[k].g]])

\* String.prototype.replace(regexp with the g flag, template)
RECURSIVE ReRebuild(_, _, _, _, _)
ReRebuild(s, ms, k, from, tpl) ==
    IF k > Len(ms) THEN SubSeq(s, from + 1, Len(s))
    ELSE SubSeq(s, from + 1, ms[k].start) \o TplExpand(tpl, ms[k].caps)
           \o ReRebuild(s, ms, k + 1, ms[k].end, tpl)

ReReplaceAll(r, s, tpl) == ReRebuild(s, ReMatchAll(r, s), 1, 0, tpl)

\* GetSubstitution for a string pattern: $$ is "$", $& the matched text,
\* $ and a backtick the text before the match, $' the text after it; any
\* other "$" stays.  The atom "<backtick>" spells the backtick character
BACKTICK == "<backtick>"

\* how many "$" stand immediately before position i
DollarsBefore(repl, i) ==
    CHOOSE n \in 0..(i - 1) :
        /\ \A j \in (i - n)..(i - 1) : repl[j] = "$"
        /\ (i - n > 1 => repl[i - n - 1] # "$")

\* the left-to-right scan takes a pattern at position i when the "$" there
\* is not the second character of a pattern (the "$" before it pair up) and
\* one of the four characters follows
PatternAt(repl, i) ==
    /\ i >= 1
    /\ i < Len(repl)
    /\ repl[i] = "$"
    /\ repl[i + 1] \in {"$", "&", BACKTICK, "'"}
    /\ DollarsBefore(repl, i) % 2 = 0

SubstitutionAt(repl, i, matched, before, after) ==
    IF PatternAt(repl, i)
    THEN (CASE repl[i + 1] = "$" -> <<"$">>
            [] repl[i + 1] = "&" -> matched
            [] repl[i + 1] = BACKTICK -> before
            [] repl[i + 1] = "'" -> after)
    ELSE IF PatternAt(repl, i - 1) THEN <<>>
    ELSE <<repl[i]>>

GetSubstitution(repl, matched, before, after) ==
    Flatten([i \in DOMAIN repl |-> SubstitutionAt(repl, i, matched, before, after)])

\* String.prototype.replace(searchString, replaceString): the first occurrence
\* only, the replacement string expanded by GetSubstitution
StringReplace(s, search, repl) ==
    LET i == IndexOfSeq(s, search)
        before == SubSeq(s, 1, i - 1)
        after == SubSeq(s, i + Len(search), Len(s))
    IN  IF i = 0 THEN s
        ELSE before \o GetSubstitution(repl, search, before, after) \o after

\* String.prototype.lastIndexOf(sub), 1-based; 0 when absent
LastIndexOfSeq(s, sub) ==
    LET hits == {i \in 1..(Len(s) - Len(sub) + 1) : SubSeq(s, i, i + Len(sub) - 1) = sub}
    IN  IF hits = {} THEN 0 ELSE CHOOSE i \in hits : \A j \in hits : j <= i

\* String.prototype.trim
RECURSIVE TrimStart(_)
TrimStart(s) == IF s # <<>> /\ Head(s) \in SpaceAtoms THEN TrimStart(Tail(s)) ELSE s

RECURSIVE TrimEnd(_)
TrimEnd(s) ==
    IF s # <<>> /\ s[Len(s)] \in SpaceAtoms THEN TrimEnd(SubSeq(s, 1, Len(s) - 1)) ELSE s

Trim(s) == TrimEnd(TrimStart(s))

\* String.prototype.split(",")
SplitComma(s) == SplitOn(s, ",")

\* Array.prototype.join("\n")
JoinLines(lines) == JoinWith(lines, "\n")

(***************************************************************************)
(* Transformer: loader.cjs (part_000) and transform.ts (part_001).  The    *)
(* two differ in the wrapper they name and import, and in whether the      *)
(* start import is added when one is present: v is "loader" or "transform" *)
(***************************************************************************)
ReSpaces == ReStar(ReSpace)
ReQuote == ReIn({"\"", "'"})
ReInBraces == ReStar(ReNotIn({"}"}))

\* \}\s*from\s*["']workflow-cron-start["']
ReFromPackage ==
    <<ReLit("}"), ReSpaces, ReLit("from"), ReSpaces,
      ReQuote, ReLit("workflow-cron-start"), ReQuote>>

\* \s*;?\n?
ReStatementEnd == <<ReSpaces, ReOpt(ReLit(";")), ReOpt(ReLit("\n"))>>

\* /import\s*\{[^}]*cronStart[^}]*\}\s*from\s*["']workflow-cron-start["']/
cronStartImportRegex ==
    ReSeq(<<ReLit("import"), ReSpaces, ReLit("{"), ReInBraces, ReLit("cronStart"),
            ReInBraces>> \o ReFromPackage)

\* /cronStart\s*\(\s*(\w+)\s*,\s*(\[[^\]]*\]|\w+)\s*,\s*(\{[^}]*\}|\w+)\s*\)/g
cronStartPattern ==
    ReSeq(<<ReLit("cronStart"), ReSpaces, ReLit("("), ReSpaces,
            ReGroup(1, RePlus(ReWord)), ReSpaces, ReLit(","), ReSpaces,
            ReGroup(2, ReAlt(<<ReSeq(<<ReLit("["), ReStar(ReNotIn({"]"})), ReLit("]")>>),
                               RePlus(ReWord)>>)),
            ReSpaces, ReLit(","), ReSpaces,
            ReGroup(3, ReAlt(<<ReSeq(<<ReLit("{"), ReInBraces, ReLit("}")>>),
                               RePlus(ReWord)>>)),
            ReSpaces, ReLit(")")>>)

\* /import\s*\{\s*cronStart\s*\}\s*from\s*["']workflow-cron-start["']\s*;?\n?/g
ReSoloImport ==
    ReSeq(<<ReLit("import"), ReSpaces, ReLit("{"), ReSpaces, ReLit("cronStart"), ReSpaces>>
          \o ReFromPackage \o ReStatementEnd)

\* /import\s*\{([^}]*),\s*cronStart\s*,([^}]*)\}\s*from\s*["']workflow-cron-start["']/g
ReMiddleImport ==
    ReSeq(<<ReLit("import"), ReSpaces, ReLit("{"), ReGroup(1, ReInBraces), ReLit(","),
            ReSpaces, ReLit("cronStart"), ReSpaces, ReLit(","), ReGroup(2, ReInBraces)>>
          \o ReFromPackage)

\* /import\s*\{([^}]*),\s*cronStart\s*\}\s*from\s*["']workflow-cron-start["']/g
ReTrailingImport ==
    ReSeq(<<ReLit("import"), ReSpaces, ReLit("{"), ReGroup(1, ReInBraces), ReLit(","),
            ReSpaces, ReLit("cronStart"), ReSpaces>>
          \o ReFromPackage)

\* /import\s*\{\s*cronStart\s*,([^}]*)\}\s*from\s*["']workflow-cron-start["']/g
ReLeadingImport ==
    ReSeq(<<ReLit("import"), ReSpaces, ReLit("{"), ReSpaces, ReLit("cronStart"), ReSpaces,
            ReLit(","), ReGroup(1, ReInBraces)>>
          \o ReFromPackage)

\* /import\s*\{\s*\}\s*from\s*["']workflow-cron-start["']\s*;?\n?/g
ReEmptyImport ==
    ReSeq(<<ReLit("import"), ReSpaces, ReLit("{"), ReSpaces>>
          \o ReFromPackage \o ReStatementEnd)

\* /import\s*\{[^}]*\bstart\b[^}]*\}\s*from\s*["']workflow\/api["']/
ReStartImport ==
    ReSeq(<<ReLit("import"), ReSpaces, ReLit("{"), ReInBraces, ReWordBoundary,
            ReLit("start"), ReWordBoundary, ReInBraces, ReLit("}"), ReSpaces,
            ReLit("from"), ReSpaces, ReQuote, ReLit("workflow"), ReLit("/"), ReLit("api"),
            ReQuote>>)

\* /^import\s+.+from\s+["'][^"']+["'];?\s*$/gm
ReImportLine ==
    ReSeq(<<ReLineStart, ReLit("import"), RePlus(ReSpace), RePlus(ReDot), ReLit("from"),
            RePlus(ReSpace), ReQuote, RePlus(ReNotIn({"\"", "'"})), ReQuote,
            ReOpt(ReLit(";")), ReSpaces, ReLineEnd>>)

\* 'import {$1,$2} from "workflow-cron-start"' and 'import {$1} from "workflow-cron-start"'
TplFromPackage == TplText(<<"}", " ", "from", " ", "\"", "workflow-cron-start", "\"">>)
TplImportTwo ==
    <<TplText(<<"import", " ", "{">>), TplGroup(1), TplText(<<",">>), TplGroup(2),
      TplFromPackage>>
TplImportOne == <<TplText(<<"import", " ", "{">>), TplGroup(1), TplFromPackage>>

\* extractCronStartCalls(source)
extractCronStartCalls(source) ==
    LET ms == ReMatchAll(cronStartPattern, source)
    IN  [k \in DOMAIN ms |->
            [workflowName |-> ms[k].caps[1],
             argsNode |-> ms[k].caps[2],
             optionsNode |-> ms[k].caps[3],
             originalCall |-> ReMatched(source, ms[k])]]

\* the five replace calls that take cronStart out of the package import
RemoveSoloImport(text) == ReReplaceAll(ReSoloImport, text, <<>>)

RemoveMiddleImportSkipped(text) == text
RemoveMiddleImport(text) == ReReplaceAll(ReMiddleImport, text, TplImportTwo)

RemoveTrailingImport(text) == ReReplaceAll(ReTrailingImport, text, TplImportOne)

RemoveLeadingImportSkipped(text) == text
RemoveLeadingImport(text) == ReReplaceAll(ReLeadingImport, text, TplImportOne)

RemoveEmptyImport(text) == ReReplaceAll(ReEmptyImport, text, <<>>)

RemoveCronStartImport(source) ==
    Call(RemoveEmptyImport, Call(RemoveLeadingImport, Call(RemoveTrailingImport,
        Call(RemoveMiddleImport, Call(RemoveSoloImport, source)))))

\* `__cron__${name}` in the loader, `__cron_${name}__` in transform.ts
XfWrapperName(v, workflowName) ==
    IF v = "loader" THEN <<"__cron__">> \o workflowName
    ELSE <<"__cron_">> \o workflowName \o <<"__">>

\* the loader's getCronWrapperDir(workingDir): the directory that exists
FirstExisting(fs, srcAppDir, appDir) ==
    IF FsExists(fs, srcAppDir) THEN srcAppDir
    ELSE IF FsExists(fs, appDir) THEN appDir
    ELSE srcAppDir

LoaderCronWrapperDir(fs, workingDir) ==
    FirstExisting(fs, PathJoin(workingDir, <<"src", "/", "app", "/", "cron-wrappers">>),
                  PathJoin(workingDir, <<"app", "/", "cron-wrappers">>))

\* the loader's path from the file being transformed to the wrapper directory
DotRelative(rel) == IF StartsWith(rel, <<".">>) THEN rel ELSE <<".", "/">> \o rel

RelativeToWrapper(fs, resourcePath, workingDir) ==
    DotRelative(BackslashToSlash(PathRelative(PathDirname(resourcePath),
                                              LoaderCronWrapperDir(fs, workingDir))))

\* the module a wrapper is imported from
XfWrapperModule(v, workflowName, relativeToWrapper) ==
    IF v = "loader"
    THEN relativeToWrapper \o <<"/", "trigger-">> \o workflowName \o <<"/", "workflow">>
    ELSE <<".workflow-cron", "/">> \o XfWrapperName(v, workflowName)

StartImportLine ==
    <<"import", " ", "{", " ", "start", " ", "}", " ", "from", " ",
      "\"", "workflow", "/", "api", "\"">>

\* the wrapper import lines: one per wrapper name, in the order of the calls
RECURSIVE WrapperImportLines(_, _, _, _)
WrapperImportLines(v, calls, relativeToWrapper, seenWrappers) ==
    IF calls = <<>> THEN <<>>
    ELSE LET wrapperName == XfWrapperName(v, Head(calls).workflowName)
         IN  IF wrapperName \in seenWrappers
             THEN WrapperImportLines(v, Tail(calls), relativeToWrapper, seenWrappers)
             ELSE << <<"import", " ", "{", " ">> \o wrapperName
                       \o <<" ", "}", " ", "from", " ", "\"">>
                       \o XfWrapperModule(v, Head(calls).workflowName, relativeToWrapper)
                       \o <<"\"">> >>
                  \o WrapperImportLines(v, Tail(calls), relativeToWrapper,
                                        seenWrappers \cup {wrapperName})

\* newImports: the start import (the loader adds it unless one is present)
\* and the wrapper imports
NewImports(v, result, calls, relativeToWrapper) ==
    (IF v = "loader" /\ ReTest(ReStartImport, result) THEN <<>> ELSE <<StartImportLine>>)
    \o WrapperImportLines(v, calls, relativeToWrapper, {})

\* insert after the last import line, or at the top when there is none
InsertAt(result, insertPosition, newImportsStr) ==
    SubSeq(result, 1, insertPosition) \o <<"\n">> \o newImportsStr
      \o SubSeq(result, insertPosition + 1, Len(result))

InsertAfter(result, lastImport, newImportsStr) ==
    InsertAt(result, LastIndexOfSeq(result, lastImport) - 1 + Len(lastImport), newImportsStr)

InsertAfterLast(result, lastImportMatch, newImportsStr) ==
    IF Len(lastImportMatch) > 0
    THEN InsertAfter(result, ReMatched(result, lastImportMatch[Len(lastImportMatch)]),
                     newImportsStr)
    ELSE newImportsStr \o result

InsertNewImports(result, newImportsStr) ==
    Call(LAMBDA lastImportMatch : InsertAfterLast(result, lastImportMatch, newImportsStr),
         ReMatchAll(ReImportLine, result))

\* updateImports(source, calls, resourcePath, workingDir)
AddNewImports(v, result, calls, relativeToWrapper) ==
    Call(LAMBDA newImportsStr : InsertNewImports(result, newImportsStr),
         JoinLines(NewImports(v, result, calls, relativeToWrapper)) \o <<"\n">>)

updateImports(v, source, calls, relativeToWrapper) ==
    Call(LAMBDA result : AddNewImports(v, result, calls, relativeToWrapper),
         RemoveCronStartImport(source))

\* mergedOptions of a call
MergedOptions(call) ==
    IF StartsWith(call.optionsNode, <<"{">>)
    THEN LET optionsContent == Trim(SubSeq(call.optionsNode, 2, Len(call.optionsNode) - 1))
         IN  <<"{", " ", "args", ":", " ">> \o call.argsNode \o <<",", " ">>
               \o optionsContent \o <<" ", "}">>
    ELSE <<"{", " ", "args", ":", " ">> \o call.argsNode \o <<",", " ", "...">>
           \o call.optionsNode \o <<" ", "}">>

\* `start(${wrapperName}, [${mergedOptions}])`
CallReplacement(v, call) ==
    <<"start", "(">> \o XfWrapperName(v, call.workflowName) \o <<",", " ", "[">>
      \o MergedOptions(call) \o <<"]", ")">>

\* replaceCronStartCalls(source, calls)
RECURSIVE replaceCronStartCalls(_, _, _)
replaceCronStartCalls(v, source, calls) ==
    IF calls = <<>> THEN source
    ELSE Call(LAMBDA result : replaceCronStartCalls(v, result, Tail(calls)),
              StringReplace(source, Head(calls).originalCall,
                            CallReplacement(v, Head(calls))))

\* the result of a transform that leaves the source as it is
Untransformed(source) ==
    [code |-> source, transformed |-> FALSE, calls |-> <<>>, importsUpdated |-> source]

\* the import test of transformCronStartCalls
ImportTestAlwaysPasses(source) == TRUE
ImportTest(source) == ReTest(cronStartImportRegex, source)

\* transformCronStartCalls(source, resourcePath, workingDir); importsUpdated
\* is what updateImports returned, calls what extractCronStartCalls found
Transformed(v, importsUpdated, cronStartCalls) ==
    [code |-> replaceCronStartCalls(v, importsUpdated, cronStartCalls),
     transformed |-> TRUE,
     calls |-> cronStartCalls,
     importsUpdated |-> importsUpdated]

TransformCalls(v, source, cronStartCalls, relativeToWrapper) ==
    IF Len(cronStartCalls) = 0 THEN Untransformed(source)
    ELSE Call(LAMBDA importsUpdated : Transformed(v, importsUpdated, cronStartCalls),
              updateImports(v, source, cronStartCalls, relativeToWrapper))

transformCronStartCalls(v, source, relativeToWrapper) ==
    IF ~ Includes(source, <<"cronStart">>) THEN Untransformed(source)
    ELSE IF ~ ImportTest(source) THEN Untransformed(source)
    ELSE Call(LAMBDA cronStartCalls :
                  TransformCalls(v, source, cronStartCalls, relativeToWrapper),
              extractCronStartCalls(source))

(***************************************************************************)
(* Source files: a package import, the import of the scheduled functions   *)
(* and cronStart statements                                                *)
(***************************************************************************)
PackageName == <<"workflow-cron-start">>

\* what the package exports
ImportNamePool == {"cronStart", "cronEnd", "cronSleep", "CronOptions"}

\* lists of distinct names
ImportNameLists ==
    {l \in UNION {[1..n -> ImportNamePool] : n \in 1..MaxImportNames} :
        \A i, j \in DOMAIN l : i # j => l[i] # l[j]}

ImportStyles == {"spaced", "compact", "multiline"}

\* import { a, b } from "m"  |  import {a,b} from 'm';  |  one name per line
\* with a trailing comma
NamedImport(names, style, module) ==
    IF style = "spaced"
    THEN <<"import", " ", "{", " ">>
           \o Flatten([i \in DOMAIN names |->
                  <<names[i]>> \o (IF i < Len(names) THEN <<",", " ">> ELSE <<>>)])
           \o <<" ", "}", " ", "from", " ", "\"">> \o module \o <<"\"", "\n">>
    ELSE IF style = "compact"
    THEN <<"import", " ", "{">>
           \o Flatten([i \in DOMAIN names |->
                  <<names[i]>> \o (IF i < Len(names) THEN <<",">> ELSE <<>>)])
           \o <<"}", " ", "from", " ", "'">> \o module \o <<"'", ";", "\n">>
    ELSE <<"import", " ", "{", "\n">>
           \o Flatten([i \in DOMAIN names |-> <<" ", " ", names[i], ",", "\n">>])
           \o <<"}", " ", "from", " ", "\"">> \o module \o <<"\"", "\n">>

\* import { f, g } from "./wf"
WorkflowImport == NamedImport(<<"f", "g">>, "spaced", RelWf)

\* await cronStart(fn, args, options); options NULL for a two-argument call
CallStatement(fn, args, options) ==
    <<"await", " ", "cronStart", "(">> \o fn \o <<",", " ">> \o args
      \o (IF options = NULL THEN <<>> ELSE <<",", " ">> \o options)
      \o <<")", "\n">>

OptionsLiteral == <<"{", " ", "cron", ":", " ", "\"", "x", "\"", " ", "}">>

StatementPool == {
    CallStatement(FnF, <<"[", "\"", "a", "\"", "]">>, OptionsLiteral),
    CallStatement(FnF, <<"args">>, <<"opts">>),
    CallStatement(FnG, <<"[", "\"", "a", "\"", "]">>, <<"opts">>),
    CallStatement(FnF, <<"[", "'", "a", "$", "'", "]">>, <<"opts">>),
    CallStatement(FnG, <<"[", "\"", "$", "$", "\"", "]">>, OptionsLiteral),
    CallStatement(FnF, <<"args">>, NULL) }

StatementLists == UNION {[1..n -> StatementPool] : n \in 0..MaxStatements}

\* what a source file has before its statements: the package import and the
\* import of f and g; no package import; cronStart imported from a local
\* module and something else from the package; cronStart and cronEnd both
\* imported from the package
Preambles == {
    NamedImport(<<"cronStart">>, "spaced", PackageName) \o WorkflowImport,
    WorkflowImport,
    NamedImport(<<"cronStart">>, "spaced", <<".", "/", "local">>)
        \o NamedImport(<<"cronEnd">>, "spaced", PackageName) \o WorkflowImport,
    NamedImport(<<"cronStart", "cronEnd">>, "spaced", PackageName) \o WorkflowImport }

\* every package import with one statement, every statement list with each
\* preamble
XfSources ==
    {NamedImport(names, style, PackageName) \o WorkflowImport
        \o CallStatement(FnF, <<"[", "\"", "a", "\"", "]">>, OptionsLiteral) :
        names \in ImportNameLists, style \in ImportStyles}
    \cup {preamble \o Flatten(statements) :
            preamble \in Preambles, statements \in StatementLists}

DepFile == <<"/", "p", "/", "node_modules", "/", "dep", "/", "index", ".", "ts">>

\* the project the loader runs in: the wrapper directory exists
XfProjectFs ==
    FsOfLayout({PathJoin(WorkingDir, <<"src", "/", "app", "/", "cron-wrappers">>)})

NoRun == [by |-> "none", skipped |-> FALSE, result |-> Untransformed(<<>>), out |-> <<>>]

XfOff ==
    /\ xfSource = <<>>
    /\ xfResource = <<>>
    /\ xfRun = NoRun

XfInit ==
    /\ xfSource \in XfSources
    /\ xfResource \in {PageFile, JobsFile, DepFile}
    /\ xfResource # PageFile => xfSource \in
           {preamble \o CallStatement(FnF, <<"args">>, <<"opts">>) : preamble \in Preambles}
    /\ xfRun = NoRun

\* cronStartLoader(source) of loader.cjs, this.resourcePath = xfResource and
\* this.rootContext = WorkingDir
CronStartLoader ==
    /\ xfRun.by = "none"
    /\ LET skip == \/ Includes(xfResource, <<"node_modules">>)
                   \/ Includes(xfResource, PackageName)
                   \/ ~ Includes(xfSource, <<"cronStart">>)
                   \/ ~ Includes(xfSource, PackageName)
       IN  \E result \in {IF skip THEN Untransformed(xfSource)
                          ELSE transformCronStartCalls("loader", xfSource,
                                   RelativeToWrapper(XfProjectFs, xfResource, WorkingDir))} :
             xfRun' = [by |-> "loader", skipped |-> skip, result |-> result,
                       out |-> result.code]
    /\ UNCHANGED <<xfSource, xfResource>>
    /\ UNCHANGED NotOfXf

\* transformCronStartCalls(source, filename) of transform.ts
TransformCronStartCalls ==
    /\ xfRun.by = "none"
    /\ \E result \in {transformCronStartCalls("transform", xfSource, <<>>)} :
         xfRun' = [by |-> "transform", skipped |-> FALSE, result |-> result,
                   out |-> result.code]
    /\ UNCHANGED <<xfSource, xfResource>>
    /\ UNCHANGED NotOfXf

XfNext == CronStartLoader \/ TransformCronStartCalls

(***************************************************************************)
(* Scanner (scanner.ts): scanForCronStartCalls over a list of files        *)
(***************************************************************************)
\* /cronStart\s*\(\s*(\w+)\s*,/g
scanCronStartPattern ==
    ReSeq(<<ReLit("cronStart"), ReSpaces, ReLit("("), ReSpaces,
            ReGroup(1, RePlus(ReWord)), ReSpaces, ReLit(",")>>)

\* /import\s*\{([^}]+)\}\s*from\s*["']([^"']+)["']/g
namedImportRegex ==
    ReSeq(<<ReLit("import"), ReSpaces, ReLit("{"), ReGroup(1, RePlus(ReNotIn({"}"}))),
            ReLit("}"), ReSpaces, ReLit("from"), ReSpaces, ReQuote,
            ReGroup(2, RePlus(ReNotIn({"\"", "'"}))), ReQuote>>)

\* /(\w+)\s+as\s+(\w+)/
asRegex ==
    ReSeq(<<ReGroup(1, RePlus(ReWord)), RePlus(ReSpace), ReLit("as"), RePlus(ReSpace),
            ReGroup(2, RePlus(ReWord))>>)

\* /import\s+(\w+)\s+from\s*["']([^"']+)["']/g
defaultImportRegex ==
    ReSeq(<<ReLit("import"), RePlus(ReSpace), ReGroup(1, RePlus(ReWord)), RePlus(ReSpace),
            ReLit("from"), ReSpaces, ReQuote, ReGroup(2, RePlus(ReNotIn({"\"", "'"}))),
            ReQuote>>)

\* Map.prototype.set and Map.prototype.get; a Map is a function of its keys
MapSet(map, key, value) == (key :> value) @@ map
MapHas(map, key) == key \in DOMAIN map

\* one part of a named import: "foo as bar" binds bar, anything else binds
\* the trimmed part
SetAsOrSimple(importMap, part, asMatch, importPath) ==
    IF asMatch.found THEN MapSet(importMap, asMatch.caps[2], importPath)
    ELSE IF Trim(part) # <<>> THEN MapSet(importMap, Trim(part), importPath)
    ELSE importMap

SetImportPart(importMap, part, importPath) ==
    IF part = <<>> THEN importMap
    ELSE SetAsOrSimple(importMap, part, ReExec(asRegex, part, 0), importPath)

RECURSIVE SetImportParts(_, _, _)
SetImportParts(importMap, importParts, importPath) ==
    IF importParts = <<>> THEN importMap
    ELSE SetImportParts(SetImportPart(importMap, Head(importParts), importPath),
                        Tail(importParts), importPath)

\* imports.split(",").map(s => s.trim())
ImportPartsOf(imports) ==
    <<>> \o [k \in DOMAIN SplitComma(imports) |-> Trim(SplitComma(imports)[k])]

\* the loop over the named imports of the source
RECURSIVE SetNamedImports(_, _)
SetNamedImports(importMap, matches) ==
    IF matches = <<>> THEN importMap
    ELSE SetNamedImports(
             SetImportParts(importMap, ImportPartsOf(Head(matches).caps[1]),
                            Head(matches).caps[2]),
             Tail(matches))

\* the loop over the default imports: a match with a brace is skipped
RECURSIVE SetDefaultImports(_, _, _)
SetDefaultImports(importMap, source, matches) ==
    IF matches = <<>> THEN importMap
    ELSE SetDefaultImports(
             IF Includes(ReMatched(source, Head(matches)), <<"{">>) THEN importMap
             ELSE MapSet(importMap, Head(matches).caps[1], Head(matches).caps[2]),
             source, Tail(matches))

\* buildImportMap(source)
buildImportMap(source) ==
    SetDefaultImports(SetNamedImports(<<>>, ReMatchAll(namedImportRegex, source)),
                      source, ReMatchAll(defaultImportRegex, source))

\* .replace(/\.(ts|tsx|js|jsx|mts|mjs)$/, "")
SourceExtensions == {"ts", "tsx", "js", "jsx", "mts", "mjs"}
StripSourceExtension(s) ==
    IF Len(s) >= 2 /\ s[Len(s) - 1] = "." /\ s[Len(s)] \in SourceExtensions
    THEN SubSeq(s, 1, Len(s) - 2) ELSE s

\* `./${relative(dirname(sourceFile), sourceFile)...}`: the origin of a
\* name the import map does not bind
FallbackImportPath(sourceFile) ==
    <<".", "/">> \o StripSourceExtension(
        BackslashToSlash(PathRelative(PathDirname(sourceFile), sourceFile)))

\* the call pushed for one match of the pattern; `if (importPath)` is false
\* for a missing key and for the empty string
ScanCallOf(importMap, workflowFunctionName, sourceFile) ==
    CallSite(workflowFunctionName,
             IF MapHas(importMap, workflowFunctionName)
                /\ importMap[workflowFunctionName] # <<>>
             THEN importMap[workflowFunctionName]
             ELSE FallbackImportPath(sourceFile),
             sourceFile)

ScanCallsOf(importMap, matches, sourceFile) ==
    <<>> \o [k \in DOMAIN matches |-> ScanCallOf(importMap, matches[k].caps[1], sourceFile)]

\* extractCronStartCallsFromSource(source, sourceFile)
extractCronStartCallsFromSource(source, sourceFile) ==
    IF ~ Includes(source, <<"cronStart">>) THEN <<>>
    ELSE IF ~ ReTest(cronStartImportRegex, source) THEN <<>>
    ELSE ScanCallsOf(buildImportMap(source), ReMatchAll(scanCronStartPattern, source),
                     sourceFile)

\* const key = `${call.workflowFunctionName}:${call.importPath}`
ScanKeyWithSourceFile(call) ==
    call.workflowFunctionName \o <<":">> \o call.importPath \o <<":">> \o call.sourceFile
ScanKey(call) == call.workflowFunctionName \o <<":">> \o call.importPath

\* deduplicateCalls(calls): seen is the set of keys, result the calls kept
RECURSIVE DeduplicateFrom(_, _, _)
DeduplicateFrom(calls, seen, result) ==
    IF calls = <<>> THEN result
    ELSE IF ScanKey(Head(calls)) \in seen
    THEN DeduplicateFrom(Tail(calls), seen, result)
    ELSE DeduplicateFrom(Tail(calls), seen \cup {ScanKey(Head(calls))},
                         Append(result, Head(calls)))

deduplicateCalls(calls) == DeduplicateFrom(calls, {}, <<>>)

(***************************************************************************)
(* The files a scan reads                                                  *)
(***************************************************************************)
PackageImport == NamedImport(<<"cronStart">>, "spaced", PackageName)

\* import { run as f } from "./wf"
RenamedImport ==
    <<"import", " ", "{", " ", "run", " ", "as", " ", "f", " ", "}", " ", "from", " ", "\"">>
      \o RelWf \o <<"\"", "\n">>

\* import f from "./wf"
DefaultImport == <<"import", " ", "f", " ", "from", " ", "'">> \o RelWf \o <<"'", ";", "\n">>

\* import f, { g } from "./wf"
DefaultAndNamedImport ==
    <<"import", " ", "f", ",", " ", "{", " ", "g", " ", "}", " ", "from", " ", "\"">>
      \o RelWf \o <<"\"", "\n">>

CallF == CallStatement(FnF, <<"args">>, <<"opts">>)
CallG == CallStatement(FnG, <<"args">>, <<"opts">>)

\* f and g from "./wf" with one call and with three; f from another origin;
\* f bound by a renamed import, by a default import and by a default import
\* that also has named bindings; f not imported; no package
\* import; no cronStart at all; a call with two arguments
ScanSources == {
    PackageImport \o WorkflowImport \o CallF,
    PackageImport \o WorkflowImport \o CallF \o CallG \o CallF,
    PackageImport \o NamedImport(<<"f">>, "compact", AliasWf) \o CallG \o CallF,
    PackageImport \o RenamedImport \o CallF,
    PackageImport \o DefaultImport \o CallF,
    PackageImport \o DefaultAndNamedImport \o CallF,
    PackageImport \o CallF,
    WorkflowImport \o CallF,
    WorkflowImport,
    PackageImport \o WorkflowImport \o CallStatement(FnF, <<"args">>, NULL) }

\* a file the build's glob also matches (its pattern lists cts and cjs)
WorkerFile == <<"/", "p", "/", "src", "/", "jobs", "/", "worker", ".", "cts">>

ScanPaths == {PageFile, JobsFile, WorkerFile}

\* what readFile gives for a path: its content, or NULL when the read throws
ScanDisks == [ScanPaths -> ScanSources \cup {NULL}]

ScanFileLists == UNION {[1..n -> ScanPaths] : n \in 0..MaxFiles}

\* extractCronStartCallsFromSource, computed once for every content and path
ExtractTable ==
    [args \in ScanSources \X ScanPaths |->
        extractCronStartCallsFromSource(args[1], args[2])] @@ <<>>

ScanOff ==
    /\ scanFiles = <<>>
    /\ scanDisk = <<>>
    /\ scanPos = 0
    /\ scanCalls = <<>>
    /\ scanResult = <<>>
    /\ scanPc = "off"

\* scanForCronStartCalls(files, workingDir) is entered: calls = []
ScanInit ==
    /\ scanFiles \in ScanFileLists
    /\ scanDisk \in ScanDisks
    /\ scanPos = 1
    /\ scanCalls = <<>>
    /\ scanResult = <<>>
    /\ scanPc = "loop"

\* one turn of the loop, readFile returns: calls.push(...fileCalls)
ScanReadFile ==
    /\ scanPc = "loop"
    /\ scanPos <= Len(scanFiles)
    /\ scanDisk[scanFiles[scanPos]] # NULL
    /\ scanCalls' = scanCalls
                      \o ExtractTable[<<scanDisk[scanFiles[scanPos]], scanFiles[scanPos]>>]
    /\ scanPos' = scanPos + 1
    /\ UNCHANGED <<scanFiles, scanDisk, scanResult, scanPc>>
    /\ UNCHANGED NotOfScan

\* one turn of the loop, readFile throws: catch, continue
ScanSkipFileEndsLoop ==
    /\ scanPc = "loop"
    /\ scanPos <= Len(scanFiles)
    /\ scanDisk[scanFiles[scanPos]] = NULL
    /\ scanPos' = Len(scanFiles) + 1
    /\ UNCHANGED <<scanFiles, scanDisk, scanCalls, scanResult, scanPc>>
    /\ UNCHANGED NotOfScan
ScanSkipFile ==
    /\ scanPc = "loop"
    /\ scanPos <= Len(scanFiles)
    /\ scanDisk[scanFiles[scanPos]] = NULL
    /\ scanPos' = scanPos + 1
    /\ UNCHANGED <<scanFiles, scanDisk, scanCalls, scanResult, scanPc>>
    /\ UNCHANGED NotOfScan

\* return deduplicateCalls(calls)
ScanReturn ==
    /\ scanPc = "loop"
    /\ scanPos > Len(scanFiles)
    /\ scanResult' = deduplicateCalls(scanCalls)
    /\ scanPc' = "done"
    /\ UNCHANGED <<scanFiles, scanDisk, scanPos, scanCalls>>
    /\ UNCHANGED NotOfScan

ScanNext == ScanReadFile \/ ScanSkipFile \/ ScanReturn

(***************************************************************************)
(* Import-path selection: the inputs and the call                          *)
(***************************************************************************)
\* origins that do not start with ".": alias-shaped ones, ones with a
\* conventional prefix, package names, the empty string
PlainOrigins ==
    Specifiers \cup {<<"src", "/", "x">>, <<"@scope", "/", "pkg">>, <<>>}

\* origins that start with "."
RelativeOrigins == {
    RelWf,
    <<".", ".", "/", "lib", "/", "wf">>,
    <<".", ".">>,
    <<".", "/", "cron-wrappers">>,
    <<".", "/", "cron-wrappers", "/", "trigger-", "f">>,
    <<".", "/", "cron-wrappers", "/", "trigger-", "f", "/", ".", "steps", "/", "wf">>,
    <<".", ".", "/", ".", ".", "/", "src", "foo", "/", "x">> }

ImpOrigins == PlainOrigins \cup RelativeOrigins

\* the workflow.ts of f in the wrapper directory of each layout
ImpGeneratedFiles ==
    {WorkflowFilePath(CallSite(FnF, RelWf, PageFile), d) : d \in CronDirs}

ImpCalls ==
    [originalImportPath : ImpOrigins,
     sourceFile : {PageFile, JobsFile},
     generatedFilePath : ImpGeneratedFiles]

ImpOff ==
    /\ impCfg = [baseUrl |-> NULL, paths |-> <<>>]
    /\ impCall = [originalImportPath |-> <<>>, sourceFile |-> <<>>,
                  generatedFilePath |-> <<>>]
    /\ impOut = NULL
    /\ impPc = "off"

ImpInit ==
    /\ impCfg \in AliasTables
    /\ impCall \in ImpCalls
    /\ impOut = NULL
    /\ impPc = "call"

\* calculateRelativeImport(generatedFilePath, originalImportPath, sourceFile,
\* workingDir, tsconfigPaths)
CalculateRelativeImport ==
    /\ impPc = "call"
    /\ impOut' = calculateRelativeImport(impCall.generatedFilePath,
                                         impCall.originalImportPath,
                                         impCall.sourceFile, WorkingDir, impCfg)
    /\ impPc' = "done"
    /\ UNCHANGED <<impCfg, impCall>>
    /\ UNCHANGED NotOfImp

ImpNext == CalculateRelativeImport

(***************************************************************************)
(* The build entry point: withCronWorkflow pre-generates the wrappers      *)
(***************************************************************************)
\* no pass has run
NoBuildPass == [status |-> "none", thrownAt |-> 0, plan |-> <<>>]

BldOff ==
    /\ bldFs = [dirs |-> {}, files |-> {}]
    /\ bldCfg = [baseUrl |-> NULL, paths |-> <<>>]
    /\ bldCalls = <<>>
    /\ bldEnv = FALSE
    /\ bldPass = NoBuildPass
    /\ bldPc = "off"

\* the config function is entered; bldEnv is
\* !process.env.WORKFLOW_NEXT_PRIVATE_BUILT && phase !== "phase-production-server"
BldInit ==
    /\ bldFs \in {FsOfLayout(l) : l \in ProjectLayouts}
    /\ bldCfg \in GenTables
    /\ bldCalls \in GenCallLists
    /\ bldEnv \in BOOLEAN
    /\ bldPass = NoBuildPass
    /\ bldPc = "entry"

\* pregenerateCronWrappers(process.cwd()), the environment failing the mkdir
\* or writeFile call number failAt of the pass (0: none): with no call found
\* it returns before generateWrapperFiles; else the pass runs, and what it
\* throws is thrown to the caller
PregenerateCronWrappers(failAt) ==
    IF bldCalls = <<>>
    THEN [fs |-> bldFs, pass |-> NoBuildPass]
    ELSE LET plan == PassTable[<<bldCalls, getCronWrapperDir(bldFs, WorkingDir), bldCfg>>].plan
             run == RunPlan(bldFs, plan, 1, failAt, {})
         IN  [fs |-> run.fs,
              pass |-> [status |-> IF run.thrownAt = 0 THEN "ok" ELSE "error",
                        thrownAt |-> run.thrownAt,
                        plan |-> plan]]

\* the number of filesystem calls of the pass
BldPlanLen ==
    IF bldCalls = <<>> THEN 0
    ELSE Len(PassTable[<<bldCalls, getCronWrapperDir(bldFs, WorkingDir), bldCfg>>].plan)

\* catch (error) { console.error(...) }: what the config function does when
\* pregenerateCronWrappers throws
PcAfterPregenerateError == "configured"

\* the config function with pre-generation not asked for
WithCronWorkflowSkips ==
    /\ bldPc = "entry"
    /\ ~ bldEnv
    /\ bldPc' = "configured"
    /\ UNCHANGED <<bldFs, bldCfg, bldCalls, bldEnv, bldPass>>
    /\ UNCHANGED NotOfBld

\* the config function, pre-generation returns
WithCronWorkflowPregenerates ==
    /\ bldPc = "entry"
    /\ bldEnv
    /\ \E result \in {PregenerateCronWrappers(0)} :
         /\ result.pass.status # "error"
         /\ bldFs' = result.fs
         /\ bldPass' = result.pass
    /\ bldPc' = "configured"
    /\ UNCHANGED <<bldCfg, bldCalls, bldEnv>>
    /\ UNCHANGED NotOfBld

\* the config function, a filesystem call of the pass throws
WithCronWorkflowPregenerateThrows ==
    /\ bldPc = "entry"
    /\ bldEnv
    /\ \E failAt \in 1..BldPlanLen :
         \E result \in {PregenerateCronWrappers(failAt)} :
           /\ result.pass.status = "error"
           /\ bldFs' = result.fs
           /\ bldPass' = result.pass
    /\ bldPc' = PcAfterPregenerateError
    /\ UNCHANGED <<bldCfg, bldCalls, bldEnv>>
    /\ UNCHANGED NotOfBld

BldNext ==
    \/ WithCronWorkflowSkips
    \/ WithCronWorkflowPregenerates
    \/ WithCronWorkflowPregenerateThrows

(***************************************************************************)
(* readTsconfigPaths (scanner.ts): config files as text, the comment       *)
(* stripping, JSON.parse and the merge with the extended config            *)
(***************************************************************************)
\* a config object: extends and compilerOptions.baseUrl (NULL when the key is
\* absent), compilerOptions.paths and whether it has an "include" array
Config(ext, baseUrl, paths, include) ==
    [ext |-> ext, baseUrl |-> baseUrl, paths |-> paths, include |-> include]

\* compilerOptions.paths: absent, or an object with its entries in order
NoPaths == [present |-> FALSE, entries |-> <<>>]
PathsObject(entries) == [present |-> TRUE, entries |-> entries]

JsonString(s) == <<"\"">> \o s \o <<"\"">>

JsonArray(items) == <<"[">> \o JoinWith(<<>> \o items, ",") \o <<"]">>

\* "pattern":["mapping", ...]
JsonPathEntry(entry) ==
    JsonString(entry.pattern) \o <<":">>
        \o JsonArray([i \in DOMAIN entry.mappings |-> JsonString(entry.mappings[i])])

JsonPaths(paths) ==
    <<"{">> \o JoinWith(<<>> \o [i \in DOMAIN paths |-> JsonPathEntry(paths[i])], ",")
        \o <<"}">>

\* the members of compilerOptions
JsonCompilerOptions(c) ==
    <<"{">>
    \o (IF c.baseUrl = NULL THEN <<>>
        ELSE JsonString(<<"baseUrl">>) \o <<":">> \o JsonString(c.baseUrl))
    \o (IF c.baseUrl # NULL /\ c.paths.present THEN <<",">> ELSE <<>>)
    \o (IF ~ c.paths.present THEN <<>>
        ELSE JsonString(<<"paths">>) \o <<":">> \o JsonPaths(c.paths.entries))
    \o <<"}">>

\* the JSON text of a config, without white space: extends, compilerOptions,
\* include, in the order a project's tsconfig.json has them
JsonOfConfig(c) ==
    <<"{">>
    \o (IF c.ext = NULL THEN <<>>
        ELSE JsonString(<<"extends">>) \o <<":">> \o JsonString(c.ext) \o <<",">>)
    \o JsonString(<<"compilerOptions">>) \o <<":">> \o JsonCompilerOptions(c)
    \o (IF c.include
        THEN <<",">> \o JsonString(<<"include">>) \o <<":">>
               \o JsonArray(<< JsonString(<<"*", "*", "/", "*", ".", "ts">>) >>)
        ELSE <<>>)
    \o <<"}">>

\* the same text as a commented file has it: a line comment before it and a
\* block comment after the opening brace
CommentedJsonOfConfig(c) ==
    <<"/", "/", " ", "generated", "\n", "{", "\n", " ", "/", "*", " ", "options", " ", "*", "/", "\n">>
        \o SliceFrom(JsonOfConfig(c), 1) \o <<"\n">>

\* the positions where sub starts in text, at or after from
StartsOf(text, sub, from) ==
    {i \in from..(Len(text) - Len(sub) + 1) : SubSeq(text, i, i + Len(sub) - 1) = sub}

Least(S) == CHOOSE i \in S : \A j \in S : i <= j

\* content.replace(/\/\*[\s\S]*?\*\//g, ""): from each slash-star to the
\* nearest star-slash after it; no match when none follows
RECURSIVE StripBlockComments(_)
StripBlockComments(text) ==
    IF StartsOf(text, <<"/", "*">>, 1) = {} THEN text
    ELSE LET open == Least(StartsOf(text, <<"/", "*">>, 1))
             closes == StartsOf(text, <<"*", "/">>, open + 2)
         IN  IF closes = {} THEN text
             ELSE SubSeq(text, 1, open - 1)
                    \o StripBlockComments(SliceFrom(text, Least(closes) + 1))

\* .replace(/\/\/.*/g, ""): from each double slash to the end of its line
RECURSIVE StripLineComments(_)
StripLineComments(text) ==
    IF StartsOf(text, <<"/", "/">>, 1) = {} THEN text
    ELSE LET open == Least(StartsOf(text, <<"/", "/">>, 1))
             ends == StartsOf(text, <<"\n">>, open) \cup {Len(text) + 1}
         IN  SubSeq(text, 1, open - 1)
               \o StripLineComments(SliceFrom(text, Least(ends) - 1))

StripComments(content) == StripLineComments(StripBlockComments(content))

\* white space between JSON tokens (no string of a config holds any)
JsonWhiteSpace == {" ", "\n"}

WithoutWhiteSpace(text) == SelectSeq(text, LAMBDA a : a \notin JsonWhiteSpace)

\* the entries a project's config declares
ChildEntries == {
    [pattern |-> <<"@", "/", "*">>,      mappings |-> << <<".", "/", "src", "/", "*">> >>],
    [pattern |-> <<"~", "/", "*">>,      mappings |-> << <<".", "/", "*">> >>],
    [pattern |-> <<"@", "c", "/", "*">>, mappings |-> << <<"src", "/", "c", "/", "*", "/", "index">> >>] }

\* objects of at most MaxAliasEntries distinct keys
ChildPathLists ==
    {ps \in UNION {[1..n -> ChildEntries] : n \in 0..MaxAliasEntries} :
        \A i, j \in DOMAIN ps : i # j => ps[i].pattern # ps[j].pattern}

BaseJson == <<".", "/", "base", ".", "json">>
GrandJson == <<".", "/", "grand", ".", "json">>

ChildConfigs ==
    {Config(ext, baseUrl, paths, include) :
        ext \in {NULL, <<".", "/", "base">>, BaseJson},
        baseUrl \in {NULL, <<".">>, <<".", "/", "app">>, <<>>},
        paths \in {NoPaths} \cup {PathsObject(ps) : ps \in ChildPathLists},
        include \in BOOLEAN}

ParentEntryAt == [pattern |-> <<"@", "/", "*">>, mappings |-> << <<".", "/", "parent", "/", "*">> >>]
ParentEntryP == [pattern |-> <<"p", "/", "*">>, mappings |-> << <<".", "/", "p", "/", "*">> >>]
ParentEntryHome == [pattern |-> <<"~", "/", "*">>, mappings |-> << <<".", "/", "home", "/", "*">> >>]

\* the configs a parent file holds: with a base directory and two patterns,
\* the same extending a grandparent, one pattern only, a base directory only
ParentConfigs == {
    Config(NULL, <<".", "/", "base">>, PathsObject(<<ParentEntryAt, ParentEntryP>>), FALSE),
    Config(GrandJson, <<".", "/", "base">>, PathsObject(<<ParentEntryAt, ParentEntryP>>), FALSE),
    Config(NULL, NULL, PathsObject(<<ParentEntryHome>>), FALSE),
    Config(NULL, <<".", "/", "base">>, NoPaths, FALSE) }

GrandConfig ==
    Config(NULL, <<".", "/", "grand">>,
           PathsObject(<< [pattern |-> <<"g", "/", "*">>,
                           mappings |-> << <<".", "/", "g", "/", "*">> >>] >>), FALSE)

JsConfig ==
    Config(NULL, <<".", "/", "js">>,
           PathsObject(<< [pattern |-> <<"j", "/", "*">>,
                           mappings |-> << <<".", "/", "j", "/", "*">> >>] >>), FALSE)

\* the objects JSON.parse can return for a file of the model
ConfigUniverse == ChildConfigs \cup ParentConfigs \cup {GrandConfig, JsConfig}

JsonTable == [c \in ConfigUniverse |-> JsonOfConfig(c)] @@ <<>>

\* JSON.parse(text): the object whose JSON text this is, white space aside;
\* it throws when the text is the JSON text of none
JsonParse(text) ==
    LET hits == {c \in ConfigUniverse : JsonTable[c] = WithoutWhiteSpace(text)}
    IN  IF hits = {} THEN [ok |-> FALSE, config |-> Config(NULL, NULL, NoPaths, FALSE)]
        ELSE [ok |-> TRUE, config |-> CHOOSE c \in hits : TRUE]

\* what a path of the disk holds: nothing (existsSync is false), something
\* readFile throws on, or a text
MISSING == <<"<missing>">>
UNREADABLE == <<"<unreadable>">>
NotJson == <<"{", "oops">>

TsconfigFile == PathJoin(WorkingDir, <<"tsconfig", ".", "json">>)
JsconfigFile == PathJoin(WorkingDir, <<"jsconfig", ".", "json">>)
BaseFile == PathJoin(WorkingDir, <<"base", ".", "json">>)
GrandFile == PathJoin(WorkingDir, <<"grand", ".", "json">>)

\* const configFiles = ["tsconfig.json", "jsconfig.json"]
configFiles == << <<"tsconfig", ".", "json">>, <<"jsconfig", ".", "json">> >>

\* const configPath = join(workingDir, configFile)
ConfigPathIn(workingDir, k) == PathJoin(workingDir, configFiles[k])
ConfigPath(k) == ConfigPathIn(WorkingDir, k)

TsconfigContents ==
    {MISSING, UNREADABLE, NotJson}
        \cup {JsonOfConfig(c) : c \in ChildConfigs}
        \cup {CommentedJsonOfConfig(c) : c \in ChildConfigs}

JsconfigContents == {MISSING, JsonOfConfig(JsConfig)}

BaseContents ==
    {MISSING, UNREADABLE, NotJson} \cup {JsonOfConfig(c) : c \in ParentConfigs}
        \cup {CommentedJsonOfConfig(c) : c \in ParentConfigs}

ConfigDisks ==
    {(TsconfigFile :> t) @@ (JsconfigFile :> j) @@ (BaseFile :> b)
        @@ (GrandFile :> JsonOfConfig(GrandConfig)) :
        t \in TsconfigContents, j \in JsconfigContents, b \in BaseContents}

ConfigTexts ==
    (TsconfigContents \cup JsconfigContents \cup BaseContents) \ {MISSING, UNREADABLE}

\* the two replace calls and JSON.parse, computed once for every text
ParsedTable == [text \in ConfigTexts |-> JsonParse(StripComments(text))] @@ <<>>

\* existsSync(path)
ConfigExists(disk, path) == path \in DOMAIN disk /\ disk[path] # MISSING

\* await readFileAsync(path, "utf-8") followed by the replace calls and
\* JSON.parse: ok is FALSE when one of them throws
ReadConfig(disk, path) ==
    IF disk[path] = UNREADABLE
    THEN [ok |-> FALSE, config |-> Config(NULL, NULL, NoPaths, FALSE)]
    ELSE ParsedTable[disk[path]]

\* { ...a, ...b } for two paths objects: the keys of a in their order, those
\* that b has with the value of b, then the other keys of b
ObjectSpread(a, b) ==
    [i \in DOMAIN a |->
        IF \E j \in DOMAIN b : b[j].pattern = a[i].pattern
        THEN b[CHOOSE j \in DOMAIN b : b[j].pattern = a[i].pattern]
        ELSE a[i]]
    \o SelectSeq(b, LAMBDA e : ~ \E i \in DOMAIN a : a[i].pattern = e.pattern)

\* a string that is neither undefined nor empty
Truthy(s) == s # NULL /\ s # <<>>

\* const result: TsconfigPaths = { paths: {} }
EmptyTable == [baseUrl |-> NULL, paths |-> <<>>]

\* the two extractions from the config of the project
WithOwnOptions(result, config) ==
    [baseUrl |-> IF Truthy(config.baseUrl) THEN config.baseUrl ELSE result.baseUrl,
     paths |-> IF config.paths.present
               THEN ObjectSpread(result.paths, config.paths.entries)
               ELSE result.paths]

\* the two extractions from the extended config
WithExtendedOptions(result, extConfig) ==
    [baseUrl |-> IF Truthy(extConfig.baseUrl) /\ ~ Truthy(result.baseUrl)
                 THEN extConfig.baseUrl ELSE result.baseUrl,
     paths |-> IF extConfig.paths.present
               THEN ObjectSpread(extConfig.paths.entries, result.paths)
               ELSE result.paths]

\* extendedPath.endsWith(".json") ? extendedPath : `${extendedPath}.json`
ExtendedFileIn(workingDir, ext) ==
    LET extendedPath == PathResolve(workingDir, ext)
    IN  IF EndsWith(extendedPath, <<".", "json">>) THEN extendedPath
        ELSE extendedPath \o <<".", "json">>
ExtendedFile(ext) == ExtendedFileIn(WorkingDir, ext)

\* the first of configFiles from number k on that exists; 0 when none does
NextConfigFileIn(disk, workingDir, k) ==
    LET there == {n \in k..Len(configFiles) :
                     ConfigExists(disk, ConfigPathIn(workingDir, n))}
    IN  IF there = {} THEN 0 ELSE Least(there)

(***************************************************************************)
(* readTsconfigPaths: the cache and the steps of a load                    *)
(***************************************************************************)
\* a second project directory of the same process
OtherDir == <<"/", "q">>

\* the calls of readTsconfigPaths that can be in progress at the same time
FirstLoader == "first"
Loaders == {FirstLoader, "second"}

\* tsconfigPathsCache = null; tsconfigPathsCacheDir = null
NoCache == [dir |-> NULL, table |-> EmptyTable]

\* tsconfigPathsCache = result; tsconfigPathsCacheDir = workingDir
CacheEntryOfWorkingDir(workingDir, result) == [dir |-> WorkingDir, table |-> result]
CacheEntry(workingDir, result) == [dir |-> workingDir, table |-> result]

\* if (tsconfigPathsCache && tsconfigPathsCacheDir === workingDir)
CacheNeverHolds(cache, workingDir) == FALSE
CacheHolds(cache, workingDir) == cache # NoCache /\ cache.dir = workingDir

\* no load in progress
IdleLoad ==
    [pc |-> "idle", dir |-> NULL, candidate |-> 0, result |-> EmptyTable,
     extendedFile |-> NULL, config |-> Config(NULL, NULL, NoPaths, FALSE),
     returned |-> EmptyTable, fromCache |-> FALSE, startedAt |-> 0]

\* what a call returned: to which directory's call, which table, whether it
\* was the cached one, and how many calls had returned when it was made
Returned(dir, table, fromCache, startedAt) ==
    [dir |-> dir, table |-> table, fromCache |-> fromCache, startedAt |-> startedAt]

CfgOff ==
    /\ cfgDisk = <<>>
    /\ cfgCache = NoCache
    /\ cfgLoad = [l \in Loaders |-> [IdleLoad EXCEPT !.pc = "off"]]
    /\ cfgLoads = 0
    /\ cfgLog = <<>>

CfgInit ==
    /\ cfgDisk \in ConfigDisks
    /\ cfgCache = NoCache
    /\ cfgLoad = [l \in Loaders |-> IdleLoad]
    /\ cfgLoads = 0
    /\ cfgLog = <<>>

\* tsconfigPathsCache = result; tsconfigPathsCacheDir = workingDir; return result
ReturnResult(l, load, result) ==
    /\ cfgCache' = CacheEntry(load.dir, result)
    /\ cfgLoad' = [cfgLoad EXCEPT ![l] =
                      [load EXCEPT !.pc = "returned", !.returned = result,
                                   !.result = result]]
    /\ cfgLog' = Append(cfgLog, Returned(load.dir, result, FALSE, load.startedAt))

\* the loop goes to configFiles[k], or ends when k is 0
ContinueWith(l, load, k) ==
    IF k = 0 THEN ReturnResult(l, load, load.result)
    ELSE /\ cfgLoad' = [cfgLoad EXCEPT ![l] =
                           [load EXCEPT !.pc = "readConfig", !.candidate = k]]
         /\ UNCHANGED <<cfgCache, cfgLog>>

\* readTsconfigPaths(workingDir) is called and the cache holds the table of
\* workingDir
ReadTsconfigPathsCached(l, workingDir) ==
    /\ cfgLoad[l].pc \in {"idle", "returned"}
    /\ cfgLoads < MaxLoads
    /\ CacheHolds(cfgCache, workingDir)
    /\ cfgLoad' = [cfgLoad EXCEPT ![l] =
                      [IdleLoad EXCEPT !.pc = "returned", !.dir = workingDir,
                                       !.returned = cfgCache.table,
                                       !.fromCache = TRUE,
                                       !.startedAt = Len(cfgLog)]]
    /\ cfgLog' = Append(cfgLog, Returned(workingDir, cfgCache.table, TRUE, Len(cfgLog)))
    /\ cfgLoads' = cfgLoads + 1
    /\ UNCHANGED <<cfgDisk, cfgCache>>
    /\ UNCHANGED NotOfCfg

\* readTsconfigPaths(workingDir) is called and the cache does not hold it:
\* up to the first readFile, or to the return when no config file exists
ReadTsconfigPaths(l, workingDir) ==
    /\ cfgLoad[l].pc \in {"idle", "returned"}
    /\ cfgLoads < MaxLoads
    /\ ~ CacheHolds(cfgCache, workingDir)
    /\ ContinueWith(l, [IdleLoad EXCEPT !.dir = workingDir, !.startedAt = Len(cfgLog)],
                    NextConfigFileIn(cfgDisk, workingDir, 1))
    /\ cfgLoads' = cfgLoads + 1
    /\ UNCHANGED cfgDisk
    /\ UNCHANGED NotOfCfg

\* the catch of the config read ends the loop instead of continuing it
ReadConfigThrowsEndsLoop(l) ==
    /\ cfgLoad[l].pc = "readConfig"
    /\ ~ ReadConfig(cfgDisk, ConfigPathIn(cfgLoad[l].dir, cfgLoad[l].candidate)).ok
    /\ ReturnResult(l, cfgLoad[l], cfgLoad[l].result)
    /\ UNCHANGED <<cfgDisk, cfgLoads>>
    /\ UNCHANGED NotOfCfg

\* the read of configFiles[candidate] or the parse of its content throws:
\* catch, continue
ReadConfigThrows(l) ==
    /\ cfgLoad[l].pc = "readConfig"
    /\ ~ ReadConfig(cfgDisk, ConfigPathIn(cfgLoad[l].dir, cfgLoad[l].candidate)).ok
    /\ ContinueWith(l, cfgLoad[l],
                    NextConfigFileIn(cfgDisk, cfgLoad[l].dir, cfgLoad[l].candidate + 1))
    /\ UNCHANGED <<cfgDisk, cfgLoads>>
    /\ UNCHANGED NotOfCfg

\* the content of configFiles[candidate] is parsed: baseUrl and paths are
\* taken, and the load goes to the read of the extended file or, with none
\* to read, to the return
ReadConfigParses(l) ==
    /\ cfgLoad[l].pc = "readConfig"
    /\ \E load \in {cfgLoad[l]} :
       \E read \in {ReadConfig(cfgDisk, ConfigPathIn(load.dir, load.candidate))} :
         /\ read.ok
         /\ \E result \in {WithOwnOptions(load.result, read.config)} :
              IF Truthy(read.config.ext)
                 /\ ConfigExists(cfgDisk, ExtendedFileIn(load.dir, read.config.ext))
              THEN /\ cfgLoad' = [cfgLoad EXCEPT ![l] =
                                     [load EXCEPT !.pc = "readExtended",
                                                  !.result = result,
                                                  !.config = read.config,
                                                  !.extendedFile =
                                                      ExtendedFileIn(load.dir,
                                                                     read.config.ext)]]
                   /\ UNCHANGED <<cfgCache, cfgLog>>
              ELSE ReturnResult(l, [load EXCEPT !.config = read.config], result)
    /\ UNCHANGED <<cfgDisk, cfgLoads>>
    /\ UNCHANGED NotOfCfg

\* the content of the extended file is parsed and merged beneath the result
ReadExtendedParses(l) ==
    /\ cfgLoad[l].pc = "readExtended"
    /\ \E read \in {ReadConfig(cfgDisk, cfgLoad[l].extendedFile)} :
         /\ read.ok
         /\ ReturnResult(l, cfgLoad[l],
                         WithExtendedOptions(cfgLoad[l].result, read.config))
    /\ UNCHANGED <<cfgDisk, cfgLoads>>
    /\ UNCHANGED NotOfCfg

\* the read of the extended file or the parse of its content throws: the
\* error is ignored
ReadExtendedThrows(l) ==
    /\ cfgLoad[l].pc = "readExtended"
    /\ ~ ReadConfig(cfgDisk, cfgLoad[l].extendedFile).ok
    /\ ReturnResult(l, cfgLoad[l], cfgLoad[l].result)
    /\ UNCHANGED <<cfgDisk, cfgLoads>>
    /\ UNCHANGED NotOfCfg

\* one call at a time, for one directory
CfgNext ==
    \/ ReadTsconfigPathsCached(FirstLoader, WorkingDir)
    \/ ReadTsconfigPaths(FirstLoader, WorkingDir)
    \/ ReadConfigThrows(FirstLoader)
    \/ ReadConfigParses(FirstLoader)
    \/ ReadExtendedParses(FirstLoader)
    \/ ReadExtendedThrows(FirstLoader)

(***************************************************************************)
(* The cache across calls: two directories, calls in progress at the same  *)
(* time, and a configuration that is edited while the process runs         *)
(***************************************************************************)
\* the two texts tsconfig.json of the working directory alternates between
ExtendingConfig ==
    Config(BaseJson, NULL,
           PathsObject(<< [pattern |-> <<"@", "/", "*">>,
                           mappings |-> << <<".", "/", "src", "/", "*">> >>] >>), FALSE)
PlainConfig ==
    Config(NULL, <<".">>,
           PathsObject(<< [pattern |-> <<"~", "/", "*">>,
                           mappings |-> << <<".", "/", "*">> >>] >>), FALSE)
EditableTexts == {JsonOfConfig(ExtendingConfig), JsonOfConfig(PlainConfig)}

\* the working directory has tsconfig.json and a base.json that is perhaps
\* no JSON, the other directory jsconfig.json and perhaps a tsconfig.json
\* that is no JSON
CacheDisks ==
    {(TsconfigFile :> t) @@ (JsconfigFile :> MISSING)
        @@ (BaseFile :> b)
        @@ (PathJoin(OtherDir, configFiles[1]) :> o)
        @@ (PathJoin(OtherDir, configFiles[2]) :> JsonOfConfig(JsConfig)) :
        t \in EditableTexts, o \in {MISSING, NotJson},
        b \in {JsonOfConfig(Config(NULL, <<".", "/", "base">>,
                   PathsObject(<<ParentEntryAt, ParentEntryP>>), FALSE)), NotJson}}

CacheInit ==
    /\ cfgDisk \in CacheDisks
    /\ cfgCache = NoCache
    /\ cfgLoad = [l \in Loaders |-> IdleLoad]
    /\ cfgLoads = 0
    /\ cfgLog = <<>>

\* tsconfig.json of the working directory is rewritten
EditConfig ==
    /\ cfgDisk' \in {[cfgDisk EXCEPT ![TsconfigFile] = t] :
                        t \in EditableTexts \ {cfgDisk[TsconfigFile]}}
    /\ UNCHANGED <<cfgCache, cfgLoad, cfgLoads, cfgLog>>
    /\ UNCHANGED NotOfCfg

CacheNext ==
    \/ \E l \in Loaders, workingDir \in {WorkingDir, OtherDir} :
          \/ ReadTsconfigPathsCached(l, workingDir)
          \/ ReadTsconfigPaths(l, workingDir)
    \/ \E l \in Loaders :
          \/ ReadConfigThrows(l)
          \/ ReadConfigParses(l)
          \/ ReadExtendedParses(l)
          \/ ReadExtendedThrows(l)
    \/ EditConfig

(***************************************************************************)
(* Two generation passes on one project at the same time                   *)
(***************************************************************************)
\* the build processes
Builders == {"one", "two"}

\* what the two processes are asked to generate
RaceCallLists ==
    {<<>>, <<CallSite(FnF, RelWf, PageFile)>>, <<CallSite(FnG, RelWf, PageFile)>>}

RaceTable == [baseUrl |-> NULL, paths |-> <<>>]

RaceOff ==
    /\ raceFs = [dirs |-> {}, files |-> {}]
    /\ racePass = <<>>

\* both processes have called generateWrapperFiles and computed cronDir
RaceInit ==
    /\ raceFs \in {FsOfLayout(l) : l \in ProjectLayouts}
    /\ racePass \in {[b \in Builders |->
                        [calls |-> calls[b],
                         cronDir |-> getCronWrapperDir(raceFs, WorkingDir),
                         next |-> 1, status |-> "running"]] :
                     calls \in [Builders -> RaceCallLists]}

\* the filesystem calls of the pass of process b
RacePlan(b) ==
    PassTable[<<racePass[b].calls, racePass[b].cronDir, RaceTable>>].plan

\* the files the pass of process b returns in generatedFiles
RaceGeneratedFiles(b) ==
    PassTable[<<racePass[b].calls, racePass[b].cronDir, RaceTable>>].generatedFiles

\* the next filesystem call of process b: nothing orders it with the calls of
\* the other process
RaceStep(b) ==
    /\ racePass[b].status = "running"
    /\ \E plan \in {RacePlan(b)} :
       \E i \in {racePass[b].next} :
         IF OpThrows(raceFs, plan[i], i, 0, {})
         THEN /\ racePass' = [racePass EXCEPT ![b].status = "error"]
              /\ UNCHANGED raceFs
         ELSE /\ raceFs' = OpApply(raceFs, plan[i], {})
              /\ racePass' = [racePass EXCEPT
                                 ![b].next = i + 1,
                                 ![b].status = IF i = Len(plan) THEN "ok" ELSE "running"]
    /\ UNCHANGED NotOfRace

RaceNext == \E b \in Builders : RaceStep(b)

(***************************************************************************)
(* Specifications: one per component, the other components at rest         *)
(***************************************************************************)
InitSched == SchedInit /\ AliasOff /\ GenOff /\ XfOff /\ ScanOff /\ ImpOff /\ BldOff /\ CfgOff /\ RaceOff
SpecSched == InitSched /\ [][SchedNext]_vars

InitAlias == AliasInit /\ SchedOff /\ GenOff /\ XfOff /\ ScanOff /\ ImpOff /\ BldOff /\ CfgOff /\ RaceOff
SpecAlias == InitAlias /\ [][AliasNext]_vars

InitGen == GenInit /\ SchedOff /\ AliasOff /\ XfOff /\ ScanOff /\ ImpOff /\ BldOff /\ CfgOff /\ RaceOff
SpecGen == InitGen /\ [][GenNext]_vars

InitXform == XfInit /\ SchedOff /\ AliasOff /\ GenOff /\ ScanOff /\ ImpOff /\ BldOff /\ CfgOff /\ RaceOff
SpecXform == InitXform /\ [][XfNext]_vars

InitScan == ScanInit /\ SchedOff /\ AliasOff /\ GenOff /\ XfOff /\ ImpOff /\ BldOff /\ CfgOff /\ RaceOff
SpecScan == InitScan /\ [][ScanNext]_vars

InitImport == ImpInit /\ SchedOff /\ AliasOff /\ GenOff /\ XfOff /\ ScanOff /\ BldOff /\ CfgOff /\ RaceOff
SpecImport == InitImport /\ [][ImpNext]_vars

InitBuild == BldInit /\ SchedOff /\ AliasOff /\ GenOff /\ XfOff /\ ScanOff /\ ImpOff /\ CfgOff /\ RaceOff
SpecBuild == InitBuild /\ [][BldNext]_vars

InitConfig == CfgInit /\ SchedOff /\ AliasOff /\ GenOff /\ XfOff /\ ScanOff /\ ImpOff /\ BldOff /\ RaceOff
SpecConfig == InitConfig /\ [][CfgNext]_vars

InitCache == CacheInit /\ SchedOff /\ AliasOff /\ GenOff /\ XfOff /\ ScanOff /\ ImpOff /\ BldOff /\ RaceOff
SpecCache == InitCache /\ [][CacheNext]_vars

InitRace == RaceInit /\ SchedOff /\ AliasOff /\ GenOff /\ XfOff /\ ScanOff /\ ImpOff /\ BldOff /\ CfgOff
SpecRace == InitRace /\ [][RaceNext]_vars


(***************************************************************************)
(* Claims                                                                  *)
(***************************************************************************)

\* C1: run with onError = "stop", the first iteration whose delegated start
\* fails ends the scheduler by propagating that failure: the failure is the
\* only one, the scheduler is in its thrown state with the start's error, and
\* no sleep and no start attempt follows the failure in the history.
C1_StopPropagatesFirstStartFailure ==
    schedCfg = "stop" =>
        \A i \in DOMAIN schedEvents :
            schedEvents[i] = "startFailed" =>
                /\ schedPc = "thrown"
                /\ schedThrown = "start"
                /\ Count(schedEvents, "startFailed") = 1
                /\ \A j \in DOMAIN schedEvents :
                       j > i => schedEvents[j] \notin {"sleep", "start", "startOk"}

C1_Witness ==
    /\ schedCfg = "stop"
    /\ schedPc = "thrown"
    /\ schedThrown = "start"
    /\ Count(schedEvents, "startOk") >= 1
    /\ Count(schedEvents, "startFailed") = 1

\* C2: run with onError = "continue" or with onError omitted, a failed start
\* never ends the scheduler: every start failure is logged and followed by the
\* next cronSleep call, and the only failure that can propagate out of the
\* loop is not a start failure.
C2_ContinueNeverPropagatesStartFailure ==
    schedCfg \in {"continue", "omitted"} =>
        /\ schedThrown # "start"
        /\ schedPc = "thrown" => schedThrown = "sleep"
        /\ \A i \in DOMAIN schedEvents :
               schedEvents[i] = "startFailed" =>
                   /\ i + 2 <= Len(schedEvents)
                   /\ schedEvents[i + 1] = "logContinuing"
                   /\ schedEvents[i + 2] = "sleep"

C2_Witness ==
    /\ schedCfg = "omitted"
    /\ schedPc = "sleeping"
    /\ Count(schedEvents, "startFailed") >= 2

\* C8: alias round trip.  For a specifier whose first-matching pattern is p,
\* resolved by resolvePathAlias to a path whose first containing pattern in
\* absolutePathToAlias is p too, absolutePathToAlias returns a specifier
\* equivalent to the original: the same specifier, or one that
\* resolvePathAlias resolves to the same absolute path.
C8_RoundTripEquivalent ==
    ( /\ aliasPc = "done"
      /\ ResolveEntryFrom(aliasIn, aliasCfg.paths, 1)
             = ContainingEntryFrom(aliasAbs, WorkingDir, aliasCfg, 1) )
    => \/ aliasOut = aliasIn
       \/ /\ aliasOut # NULL
          /\ resolvePathAlias(aliasOut, WorkingDir, aliasCfg) = aliasAbs

\* the paths of the filesystem strictly below dir
FsEntriesUnder(fs, dir) ==
    {p \in fs.dirs \cup {f.path : f \in fs.files} : StartsWith(p, dir \o <<"/">>)}

\* the (name, origin) pairs of a list of call sites
UniquePairs(calls) == {CallKey(calls[i]) : i \in DOMAIN calls}

\* the workflow.ts files on disk below dir
WrapperFilesOnDisk(fs, dir) ==
    {f \in fs.files : /\ StartsWith(f.path, dir \o <<"/">>)
                      /\ EndsWith(f.path, <<"/", "workflow", ".", "ts">>)}

\* C4: after a completed pass whose recursive delete succeeded, the number of
\* wrapper files on disk, of filesWritten entries and of descriptors all equal
\* the number of unique (name, origin) pairs of the call-site list, duplicates
\* and same-name-different-origin lists included.
C4_OneWrapperPerUniquePair ==
    (genLast.status = "ok" /\ ~ genLast.rmFailed) =>
        LET n == Cardinality(UniquePairs(genLast.calls))
        IN  /\ Cardinality(WrapperFilesOnDisk(genFs, genLast.cronDir)) = n
            /\ Len(genLast.generatedFiles) = n
            /\ Len(genLast.wrapperInfos) = n

\* C9: in every completed pass the descriptor of each unique call site is
\* named "__cron__" + name and "trigger-" + name, whatever the origin, the
\* source file, the alias table and the prior content of the directory.
C9_NamingIsPureFunctionOfName ==
    genLast.status = "ok" =>
        LET unique == UniqueWorkflows(genLast.calls)
        IN  /\ Len(genLast.wrapperInfos) = Len(unique)
            /\ \A i \in DOMAIN unique :
                 /\ genLast.wrapperInfos[i].wrapperName
                      = <<"__cron__">> \o unique[i].workflowFunctionName
                 /\ genLast.wrapperInfos[i].triggerDirName
                      = <<"trigger-">> \o unique[i].workflowFunctionName

\* a second completed pass over a directory that kept prior content, with an
\* alias table, naming f from an aliased origin and from a second source file
C9_Witness ==
    /\ genLast.status = "ok"
    /\ genPasses = 2
    /\ genLast.rmFailed
    /\ genCfg.paths # <<>>
    /\ \E i \in DOMAIN genLast.calls :
         /\ genLast.calls[i].importPath = AliasWf
         /\ genLast.calls[i].workflowFunctionName = FnF
    /\ \E i \in DOMAIN genLast.calls :
         /\ genLast.calls[i].sourceFile = JobsFile
         /\ genLast.calls[i].workflowFunctionName = FnF

\* C10: after a completed pass the container directory holds only what that
\* pass wrote: its marker file, manifest, route and one directory with one
\* workflow.ts per generated file.
C10_ContainerHoldsOnlyThisPass ==
    genLast.status = "ok" =>
        LET dir == genLast.cronDir
            written ==
                {PathJoin(dir, <<".", "gitignore">>),
                 PathJoin(dir, <<"manifest", ".", "json">>),
                 PathJoin(dir, <<"route", ".", "ts">>)}
                \cup {genLast.generatedFiles[i] : i \in DOMAIN genLast.generatedFiles}
                \cup {PathDirname(genLast.generatedFiles[i]) :
                        i \in DOMAIN genLast.generatedFiles}
        IN  FsEntriesUnder(genFs, dir) = written

\* /import\s*\{([^}]*)\}\s*from\s*["']workflow-cron-start["']/g: every named
\* import of the package in a text
ReAnyPackageImport ==
    ReSeq(<<ReLit("import"), ReSpaces, ReLit("{"), ReGroup(1, ReInBraces)>> \o ReFromPackage)

\* the list between the braces of each package import of a text: its
\* comma-separated parts, trimmed
PackageImportLists(text) ==
    LET ms == ReMatchAll(ReAnyPackageImport, text)
    IN  [k \in DOMAIN ms |->
            LET parts == SplitComma(ms[k].caps[1])
            IN  [i \in DOMAIN parts |-> Trim(parts[i])]]

\* the names of a list; a part is empty after a trailing comma
NamesOf(list) == SelectSeq(list, LAMBDA part : part # <<>>)

\* a comma with nothing before it: a leading or a doubled comma
HasStrayComma(list) == \E i \in 1..(Len(list) - 1) : list[i] = <<>>

\* the names each package import of a source is to keep, the imports left
\* with no name dropped
KeptImportNames(source) ==
    LET lists == PackageImportLists(source)
        kept == [k \in DOMAIN lists |->
                    SelectSeq(NamesOf(lists[k]), LAMBDA part : part # <<"cronStart">>)]
    IN  SelectSeq(kept, LAMBDA names : names # <<>>)

\* C5: a transform replaces every matched call cronStart(f, A, O) by
\* start(<wrapper of f>, [C]), C being { args: A, <the properties of O> } for
\* an object literal O and { args: A, ...O } for an identifier O: the text it
\* returns holds that invocation for every matched call and no matched call.
C5_EveryMatchedCallRewritten ==
    xfRun.result.transformed =>
        /\ \A k \in DOMAIN xfRun.result.calls :
             Includes(xfRun.out, CallReplacement(xfRun.by, xfRun.result.calls[k]))
        /\ Len(extractCronStartCalls(xfRun.out)) = 0

\* C6: when a transform rewrites a file, the package imports of the text
\* updateImports returns are those of the source without cronStart, the other
\* names in order and the emptied imports gone; and no package import of the
\* returned text names cronStart, has a stray comma or is empty.
C6_CronStartImportRemoved ==
    xfRun.result.transformed =>
        LET updated == PackageImportLists(xfRun.result.importsUpdated)
            out == PackageImportLists(xfRun.out)
            kept == KeptImportNames(xfSource)
        IN  /\ [k \in DOMAIN updated |-> NamesOf(updated[k])] = kept
            /\ \A k \in DOMAIN out :
                 /\ ~ HasStrayComma(out[k])
                 /\ \E j \in DOMAIN kept : NamesOf(out[k]) = kept[j]

\* a rewritten file whose package import lists cronStart between two names
C6_Witness ==
    /\ xfRun.result.transformed
    /\ \E names \in ImportNameLists, style \in ImportStyles :
         /\ Len(names) = 3
         /\ names[2] = "cronStart"
         /\ StartsWith(xfSource, NamedImport(names, style, PackageName))
    /\ Len(PackageImportLists(xfRun.out)) = 1

\* the source names cronStart in a named import of the package
ImportsCronStart(source) ==
    LET lists == PackageImportLists(source)
    IN  \E k \in DOMAIN lists : \E i \in DOMAIN lists[k] : lists[k][i] = <<"cronStart">>

\* C7: a transform returns its input, unchanged and flagged unchanged, when
\* the source does not mention cronStart, does not import it from the package
\* or holds no call of the three-argument pattern; it flags a change only
\* when it rewrote a call.
C7_NoOpUnlessCallRewritten ==
    xfRun.by # "none" =>
        /\ ( \/ ~ Includes(xfSource, <<"cronStart">>)
             \/ ~ ImportsCronStart(xfSource)
             \/ Len(ReMatchAll(cronStartPattern, xfSource)) = 0 )
           => /\ xfRun.result.code = xfSource
              /\ ~ xfRun.result.transformed
              /\ xfRun.out = xfSource
        /\ xfRun.result.transformed =>
             \E k \in DOMAIN xfRun.result.calls :
                 Includes(xfRun.out,
                     <<"start", "(">>
                       \o XfWrapperName(xfRun.by, xfRun.result.calls[k].workflowName))

\* a run over a source that calls cronStart with three arguments but imports
\* it from another module
C7_Witness ==
    /\ xfRun.by # "none"
    /\ ~ xfRun.skipped
    /\ Includes(xfSource, <<"cronStart">>)
    /\ Includes(xfSource, PackageName)
    /\ ~ ImportsCronStart(xfSource)
    /\ Len(ReMatchAll(cronStartPattern, xfSource)) > 0

(***************************************************************************)
(* C3: the list scanForCronStartCalls returns never has two call sites     *)
(* with the same function name and the same import origin, whatever the    *)
(* files and however many calls each has; when every call found has one    *)
(* and the same pair, as with two files that each call the same function   *)
(* imported from the same origin, the list has exactly one call site       *)
(***************************************************************************)
SamePair(a, b) ==
    /\ a.workflowFunctionName = b.workflowFunctionName
    /\ a.importPath = b.importPath

C3_ScanResultHasNoDuplicatePair ==
    scanPc = "done" =>
        /\ \A i, j \in DOMAIN scanResult :
             i # j => ~ SamePair(scanResult[i], scanResult[j])
        /\ (/\ scanCalls # <<>>
            /\ \A i, j \in DOMAIN scanCalls : SamePair(scanCalls[i], scanCalls[j]))
           => Len(scanResult) = 1

\* two files, each with a call of f imported from "./wf", have been scanned
C3_Witness ==
    /\ scanPc = "done"
    /\ scanFiles = <<PageFile, JobsFile>>
    /\ Len(scanCalls) = 2
    /\ scanCalls[1].sourceFile = PageFile
    /\ scanCalls[2].sourceFile = JobsFile
    /\ SamePair(scanCalls[1], CallSite(FnF, RelWf, PageFile))
    /\ SamePair(scanCalls[2], CallSite(FnF, RelWf, PageFile))
    /\ Len(scanResult) = 1

\* C11: import-path selection returns an origin that does not start with "."
\* exactly as it was given, whether it matches a configured pattern, has a
\* conventional alias prefix or is a package name, for every alias table,
\* every referencing file and every location of the synthesized module.
C11_NonRelativeOriginUnchanged ==
    (impPc = "done" /\ ~ StartsWith(impCall.originalImportPath, <<".">>))
        => impOut = impCall.originalImportPath

\* an origin that a configured pattern matches and maps, returned as given
C11_Witness ==
    /\ impPc = "done"
    /\ impCall.originalImportPath = <<"@", "/", "lib", "/", "x">>
    /\ resolvePathAlias(impCall.originalImportPath, WorkingDir, impCfg) # NULL
    /\ impOut = impCall.originalImportPath

\* C12: for an origin that starts with ".", import-path selection resolves it
\* against the referencing file's directory and returns the alias of that
\* path when absolutePathToAlias gives one; otherwise it returns a path with
\* no backslash that begins with "./" or "../".
ImpTarget == PathResolve(PathDirname(impCall.sourceFile), impCall.originalImportPath)

C12_RelativeOriginAliasedOrDotRelative ==
    (impPc = "done" /\ StartsWith(impCall.originalImportPath, <<".">>))
        => \E aliasImport \in {absolutePathToAlias(ImpTarget, WorkingDir, impCfg)} :
             IF aliasImport # NULL
             THEN impOut = aliasImport
             ELSE /\ ~ Includes(impOut, <<"\\">>)
                  /\ \/ StartsWith(impOut, <<".", "/">>)
                     \/ StartsWith(impOut, <<".", ".", "/">>)

\* C13: when scan returns, every call it discovered in a file that was read
\* and whose function name the file's import map does not bind is in the
\* result as a CallSite of that name whose origin is "./" followed by the
\* file's basename without its extension.
BasenameWithoutExtension(file) ==
    LET base == PathBasename(file)
    IN  IF Len(base) >= 3 /\ base[Len(base) - 1] = "."
        THEN SubSeq(base, 1, Len(base) - 2) ELSE base

\* the function names of the calls scan discovers in a source that its import
\* map does not bind
UnboundCallNames(source) ==
    IF extractCronStartCallsFromSource(source, PageFile) = <<>> THEN {}
    ELSE LET matches == ReMatchAll(scanCronStartPattern, source)
         IN  {matches[k].caps[1] : k \in DOMAIN matches} \ DOMAIN buildImportMap(source)

UnboundTable == [source \in ScanSources |-> UnboundCallNames(source)] @@ <<>>

C13_UnboundNameGetsSameFileOrigin ==
    scanPc = "done" =>
        \A i \in DOMAIN scanFiles :
            scanDisk[scanFiles[i]] # NULL =>
                \A name \in UnboundTable[scanDisk[scanFiles[i]]] :
                    \E k \in DOMAIN scanResult :
                        /\ scanResult[k].workflowFunctionName = name
                        /\ scanResult[k].importPath =
                               <<".", "/">> \o BasenameWithoutExtension(scanFiles[i])

\* C14: when scan returns, every file that was read and holds exactly one
\* scheduling call, whose first argument f is bound by a named import, a
\* renamed import or a default import from "./wf", has exactly one CallSite
\* in the result with that file as source file, and it has f as function
\* name and "./wf" as origin.
BoundOneCallSources == {
    PackageImport \o WorkflowImport \o CallF,
    PackageImport \o RenamedImport \o CallF,
    PackageImport \o DefaultImport \o CallF,
    PackageImport \o DefaultAndNamedImport \o CallF,
    PackageImport \o WorkflowImport \o CallStatement(FnF, <<"args">>, NULL) }

CallSitesOfFile(file) == {k \in DOMAIN scanResult : scanResult[k].sourceFile = file}

C14_OneCallSitePerBoundCall ==
    scanPc = "done" =>
        \A i \in DOMAIN scanFiles :
            scanDisk[scanFiles[i]] \in BoundOneCallSources =>
                /\ Cardinality(CallSitesOfFile(scanFiles[i])) = 1
                /\ \A k \in CallSitesOfFile(scanFiles[i]) :
                      /\ scanResult[k].workflowFunctionName = FnF
                      /\ scanResult[k].importPath = RelWf

\* C15: a file whose read throws is skipped and the files after it are still
\* processed: scan always returns, and what it returns is what scanning the
\* readable files alone, in the same order, returns.
ReadableFiles == SelectSeq(scanFiles, LAMBDA file : scanDisk[file] # NULL)

CallsOfReadableFiles ==
    Flatten([i \in DOMAIN ReadableFiles |->
                ExtractTable[<<scanDisk[ReadableFiles[i]], ReadableFiles[i]>>]])

C15_UnreadableFileSkipped ==
    /\ scanPc \in {"loop", "done"}
    /\ scanPc = "loop" => scanPos \in 1..(Len(scanFiles) + 1)
    /\ scanPc = "done" => scanResult = deduplicateCalls(CallsOfReadableFiles)

\* the first file cannot be read, the second holds a call, and the call is
\* in the result
C15_Witness ==
    /\ scanPc = "done"
    /\ Len(scanFiles) = 2
    /\ scanDisk[scanFiles[1]] = NULL
    /\ scanDisk[scanFiles[2]] # NULL
    /\ scanResult # <<>>
    /\ scanResult[1].sourceFile = scanFiles[2]

\* C16: after a completed pass manifest.json is an object keyed by the
\* function names of the generated wrappers, one entry per name, and each
\* value has exactly two string fields: wrapperName, "__cron__" followed by
\* the name, and a second field, "trigger-" followed by the name. The second
\* field is named triggerDir; as stated, the claim names it containerDir.
RECURSIVE DistinctFrom(_, _)
DistinctFrom(names, acc) ==
    IF names = <<>> THEN acc
    ELSE DistinctFrom(Tail(names),
                      IF \E i \in DOMAIN acc : acc[i] = Head(names)
                      THEN acc ELSE Append(acc, Head(names)))

\* the function names of the pass's wrappers, each once, in order
GeneratedWrapperNames ==
    DistinctFrom([i \in DOMAIN UniqueWorkflows(genLast.calls) |->
                     UniqueWorkflows(genLast.calls)[i].workflowFunctionName], <<>>)

\* the text of an object with one entry per name, whose values have the
\* fields wrapperName and dirField
ManifestTextOf(names, dirField) ==
    <<"{">> \o Flatten([i \in DOMAIN names |->
        <<"\"">> \o names[i] \o <<"\"", ":", "{", "\"", "wrapperName", "\"", ":", "\"">>
          \o <<"__cron__">> \o names[i]
          \o <<"\"", ",", "\"", dirField, "\"", ":", "\"">>
          \o <<"trigger-">> \o names[i] \o <<"\"", "}">>
          \o (IF i < Len(names) THEN <<",">> ELSE <<>>)]) \o <<"}">>

ManifestOnDisk ==
    FsContentAt(genFs, PathJoin(genLast.cronDir, <<"manifest", ".", "json">>))

NothingAfterFailure ==
    \A j \in bldPass.thrownAt..Len(bldPass.plan) :
        LET op == bldPass.plan[j]
            earlier == {bldPass.plan[i] : i \in 1..(bldPass.thrownAt - 1)}
        IN  /\ op.op = "write" =>
                \/ FsContentAt(bldFs, op.path) = NULL
                \/ \E e \in earlier : e.op = "write" /\ e.path = op.path
            /\ op.op = "mkdir" =>
                \/ op.path \notin bldFs.dirs
                \/ \E e \in earlier : e.op = "mkdir" /\ op.path \in e.ancestors

C17_GenerationFailureAbortsBuild ==
    bldPass.status = "error" =>
        /\ NothingAfterFailure
        /\ bldPc = "aborted"


(***************************************************************************)
(* C18, C19: the load of the alias table                                   *)
(***************************************************************************)
\* the object a config text declares, as a reader of JSON with comments
\* takes it; none for a text that is no config
DeclaredTable ==
    [text \in ConfigTexts |->
        {c \in ConfigUniverse : text \in {JsonTable[c], CommentedJsonOfConfig(c)}}] @@ <<>>

DeclaredAt(disk, path) ==
    IF ConfigExists(disk, path) /\ disk[path] # UNREADABLE
    THEN DeclaredTable[disk[path]] ELSE {}

\* a paths object as a map from pattern to targets
EntriesOf(paths) == {paths[i] : i \in DOMAIN paths}
DeclaredEntries(c) == IF c.paths.present THEN EntriesOf(c.paths.entries) ELSE {}

\* the parent's entries overridden by the child's
ParentOverriddenByChild(child, parent) ==
    DeclaredEntries(child)
        \cup {e \in DeclaredEntries(parent) :
                ~ \E own \in DeclaredEntries(child) : own.pattern = e.pattern}

\* a load that read the files itself has returned
FreshLoadReturned == cfgLoad[FirstLoader].pc = "returned" /\ ~ cfgLoad[FirstLoader].fromCache

\* C18: when tsconfig.json declares a parent config and the parent file
\* holds a config, the table a load returns has the parent's entries
\* overridden by the child's, and the base directory of the child when the
\* child declares one, of the parent otherwise; nothing of the grandparent
C18_ParentEntriesOverriddenByChild ==
    FreshLoadReturned =>
        \A child \in DeclaredAt(cfgDisk, TsconfigFile) :
            child.ext # NULL =>
                \A parent \in DeclaredAt(cfgDisk, ExtendedFile(child.ext)) :
                    /\ EntriesOf(cfgLoad[FirstLoader].returned.paths)
                         = ParentOverriddenByChild(child, parent)
                    /\ cfgLoad[FirstLoader].returned.baseUrl =
                         (IF child.baseUrl # NULL THEN child.baseUrl
                          ELSE parent.baseUrl)


\* the candidate of number k exists, is read and is parsed
CandidateLoads(disk, k) ==
    /\ ConfigExists(disk, ConfigPath(k))
    /\ ReadConfig(disk, ConfigPath(k)).ok

\* C19: a load never raises and returns a table. The table has no pattern
\* and no base directory when no candidate file exists or every candidate
\* that exists fails to be read or parsed; when tsconfig.json is missing or
\* fails and jsconfig.json is parsed, the table is that of jsconfig.json
C19_EmptyWhenNoCandidateLoads ==
    /\ cfgLoad[FirstLoader].pc \in {"idle", "readConfig", "readExtended", "returned"}
    /\ FreshLoadReturned =>
        /\ (\A k \in DOMAIN configFiles : ~ CandidateLoads(cfgDisk, k))
              => cfgLoad[FirstLoader].returned = EmptyTable
        /\ (~ CandidateLoads(cfgDisk, 1) /\ CandidateLoads(cfgDisk, 2))
              => cfgLoad[FirstLoader].returned
                   = WithOwnOptions(EmptyTable, ReadConfig(cfgDisk, ConfigPath(2)).config)

\* C19 as stated: whenever tsconfig.json is missing or fails to be parsed,
\* the returned table has no pattern
C19_EmptyWhenPrimaryMissingOrUnparsable ==
    (FreshLoadReturned /\ ~ CandidateLoads(cfgDisk, 1))
        => cfgLoad[FirstLoader].returned.paths = <<>>

\* tsconfig.json exists and failed to be parsed, jsconfig.json is missing,
\* and the load returned the empty table
C19_Witness ==
    /\ FreshLoadReturned
    /\ ConfigExists(cfgDisk, TsconfigFile)
    /\ ~ CandidateLoads(cfgDisk, 1)
    /\ ~ ConfigExists(cfgDisk, JsconfigFile)
    /\ cfgLoad[FirstLoader].candidate = 1
    /\ cfgLoad[FirstLoader].returned = EmptyTable


(***************************************************************************)
(* C20: the wrapper the transformer imports and the one the generator      *)
(* writes                                                                  *)
(***************************************************************************)
XfVariants == {"loader", "transform"}

\* the file an import of module from the file resource is resolved to
ModuleFileOf(resource, module) ==
    PathResolve(PathDirname(resource), module) \o <<".", "ts">>

\* the file at path exports a function of the name identifier
ExportsFunction(fs, path, identifier) ==
    /\ FsContentAt(fs, path) # NULL
    /\ Includes(FsContentAt(fs, path),
                <<"export", "async", "function", " ">> \o identifier \o <<"(">>)

\* the import the transformer v writes into the file of the call names a
\* module the pass wrote and an identifier that module exports
TransformerAgrees(v, fs, call) ==
    ExportsFunction(fs,
        ModuleFileOf(call.sourceFile,
            XfWrapperModule(v, call.workflowFunctionName,
                            RelativeToWrapper(fs, call.sourceFile, WorkingDir))),
        XfWrapperName(v, call.workflowFunctionName))

\* C20: after a pass that succeeded, for every call site of the pass and
\* each of the two transformers, the wrapper identifier the transformer
\* imports is exported by the module it imports it from, which is the
\* module the generator wrote for the function
C20_TransformerAndGeneratorAgree ==
    genLast.status = "ok" =>
        \A v \in XfVariants : \A i \in DOMAIN genLast.calls :
            TransformerAgrees(v, genFs, genLast.calls[i])


(***************************************************************************)
(* C21: sleeps and starts of the scheduler alternate                       *)
(***************************************************************************)
\* the cronSleep calls and the start attempts of the history, in order
SleepsAndStarts == SelectSeq(schedEvents, LAMBDA e : e \in {"sleep", "start"})

\* the cronSleep calls that have returned
CompletedSleeps ==
    Count(schedEvents, "sleep") - Count(schedEvents, "sleepFailed")
        - (IF schedPc = "sleeping" THEN 1 ELSE 0)

C29_SleepFailurePropagates ==
    \A i \in DOMAIN schedEvents :
        schedEvents[i] = "sleepFailed" =>
            /\ i = Len(schedEvents)
            /\ schedPc = "thrown"
            /\ schedThrown = "sleep"

\* under the continue policy a start failed and was survived, then cronSleep
\* failed and ended the scheduler
C29_Witness ==
    /\ schedCfg = "continue"
    /\ schedPc = "thrown"
    /\ schedThrown = "sleep"
    /\ Count(schedEvents, "startFailed") >= 1
    /\ schedEvents[Len(schedEvents)] = "sleepFailed"


(***************************************************************************)
(* C22, C28: the cache of the alias table                                  *)
(***************************************************************************)
\* call j was made after call i returned, both for the same directory, and
\* no call for another directory returned in between
LaterLoadOfSameDir(i, j) ==
    /\ i < j
    /\ cfgLog[j].dir = cfgLog[i].dir
    /\ cfgLog[j].startedAt >= i
    /\ \A k \in (i + 1)..cfgLog[j].startedAt : cfgLog[k].dir = cfgLog[i].dir

\* readTsconfigPaths(dir), run alone on the disk as it is
LoadedTable(disk, dir) ==
    LET k == NextConfigFileIn(disk, dir, 1)
        loads(n) == n # 0 /\ ReadConfig(disk, ConfigPathIn(dir, n)).ok
        first == IF loads(k) THEN k
                 ELSE IF k # 0 /\ loads(NextConfigFileIn(disk, dir, k + 1))
                      THEN NextConfigFileIn(disk, dir, k + 1) ELSE 0
    IN  IF first = 0 THEN EmptyTable
        ELSE LET config == ReadConfig(disk, ConfigPathIn(dir, first)).config
                 own == WithOwnOptions(EmptyTable, config)
             IN  IF /\ Truthy(config.ext)
                    /\ ConfigExists(disk, ExtendedFileIn(dir, config.ext))
                    /\ ReadConfig(disk, ExtendedFileIn(dir, config.ext)).ok
                 THEN WithExtendedOptions(own, ReadConfig(disk,
                          ExtendedFileIn(dir, config.ext)).config)
                 ELSE own

TablesOfDir(dir) == {LoadedTable(disk, dir) : disk \in CacheDisks}

\* C28: whatever the interleaving of the calls in progress, the cache holds
\* for its directory a table that a call for that directory read from the
\* files and returned, and every call returns a table built from the
\* configuration of its own directory
C28_CacheConsistent ==
    /\ cfgCache # NoCache =>
          /\ cfgCache.table \in TablesOfDir(cfgCache.dir)
          /\ \E k \in DOMAIN cfgLog :
                /\ ~ cfgLog[k].fromCache
                /\ cfgLog[k].dir = cfgCache.dir
                /\ cfgLog[k].table = cfgCache.table
    /\ \A k \in DOMAIN cfgLog : cfgLog[k].table \in TablesOfDir(cfgLog[k].dir)

\* calls for the two directories were in progress at the same time, the one
\* that started first returned last, and the cache holds its table
C28_Witness ==
    /\ Len(cfgLog) = 2
    /\ cfgLog[1].dir = OtherDir /\ cfgLog[2].dir = WorkingDir
    /\ cfgLog[1].startedAt = 0 /\ cfgLog[2].startedAt = 0
    /\ ~ cfgLog[1].fromCache /\ ~ cfgLog[2].fromCache
    /\ \E l \in Loaders : cfgLoad[l].dir = WorkingDir /\ cfgLoad[l].extendedFile # NULL
    /\ cfgCache.dir = WorkingDir
    /\ TablesOfDir(WorkingDir) \cap TablesOfDir(OtherDir) = {}


(***************************************************************************)
(* C23: the loader before and after a generation pass                      *)
(***************************************************************************)
\* a file with the package import and one call
SourceWithOneCall ==
    NamedImport(<<"cronStart">>, "spaced", PackageName) \o WorkflowImport
        \o CallStatement(FnF, <<"args">>, <<"opts">>)

\* what cronStartLoader returns for the file resource of the project fs
LoaderOutput(fs, resource) ==
    transformCronStartCalls("loader", SourceWithOneCall,
                            RelativeToWrapper(fs, resource, WorkingDir)).code

\* the directory the loader's wrapper imports of the file resource point into
LoaderImportsFrom(fs, resource) ==
    PathResolve(PathDirname(resource), RelativeToWrapper(fs, resource, WorkingDir))

\* C23: for every layout and every file, a pass that succeeds leaves the
\* output of the loader for the file as it was before the pass, and the
\* wrapper imports of that output point into the directory the pass wrote to
C23_LoaderIndependentOfPass ==
    [][(genPasses' = genPasses + 1 /\ genLast'.status = "ok") =>
          \A resource \in {PageFile, JobsFile} :
              /\ LoaderOutput(genFs, resource) = LoaderOutput(genFs', resource)
              /\ LoaderImportsFrom(genFs, resource) = genLast'.cronDir
              /\ LoaderImportsFrom(genFs', resource) = genLast'.cronDir]_vars


(***************************************************************************)
(* C24: two passes at the same time                                        *)
(***************************************************************************)
\* the files a pass that returned has written: the synthesized modules it
\* reports, the marker, the manifest and the aggregator
RaceFilesOf(b) ==
    {RaceGeneratedFiles(b)[i] : i \in DOMAIN RaceGeneratedFiles(b)}
        \cup {PathJoin(racePass[b].cronDir, name) :
                 name \in {<<".", "gitignore">>, <<"manifest", ".", "json">>,
                           <<"route", ".", "ts">>}}

\* process b takes the recursive delete of its pass
RaceDeletes(b) == racePass[b].next = 1 /\ racePass'[b].next = 2

\* C24: nothing orders the filesystem calls of two passes. A pass that has
\* calls left can always take the next one, wherever the other pass is; the
\* recursive delete of a pass removes every file of the wrapper directory,
\* those the other pass has written included, and leaves the other pass
\* where it was
C24_PassesRaceOnDelete ==
    /\ [](\A b \in Builders : racePass[b].status = "running" => ENABLED RaceStep(b))
    /\ [][\A b \in Builders :
             RaceDeletes(b) =>
                 /\ \A f \in raceFs'.files : ~ IsUnder(f.path, racePass[b].cronDir)
                 /\ \A o \in Builders \ {b} : racePass'[o] = racePass[o]]_vars

\* both passes returned successfully and a file one of them reports is
\* absent
C24_Witness ==
    /\ \A b \in Builders : racePass[b].status = "ok"
    /\ \E b \in Builders :
          /\ RaceGeneratedFiles(b) # <<>>
          /\ ~ FsExists(raceFs, RaceGeneratedFiles(b)[1])
          /\ \E f \in RaceFilesOf(b) : FsExists(raceFs, f)


(***************************************************************************)
(* C25: the import of the synthesized module denotes the original module   *)
(***************************************************************************)
\* a specifier the module resolution takes relative to the importing file
IsRelativeSpecifier(specifier) ==
    \/ specifier \in {<<".">>, <<".", ".">>}
    \/ StartsWith(specifier, <<".", "/">>)
    \/ StartsWith(specifier, <<".", ".", "/">>)

\* the absolute path a specifier written in the file importer denotes: from
\* the importer's directory when it is relative, through the alias table
\* otherwise (NULL when no pattern of the table matches it)
DenotedModule(specifier, importer, cfg) ==
    IF IsRelativeSpecifier(specifier)
    THEN PathResolve(PathDirname(importer), specifier)
    ELSE resolvePathAlias(specifier, WorkingDir, cfg)

\* C25: for a relative origin, the specifier calculateRelativeImport returns
\* denotes, from the synthesized module, the absolute path the origin denotes
\* from the referencing file
C25_ImportDenotesOriginalModule ==
    (impPc = "done" /\ StartsWith(impCall.originalImportPath, <<".">>))
        => DenotedModule(impOut, impCall.generatedFilePath, impCfg) = ImpTarget


(***************************************************************************)
(* C26: what deduplication merges                                          *)
(***************************************************************************)
\* the module the origin of a discovered call denotes: a relative origin is
\* resolved from the directory of the file the call is in
ModuleOfCall(call) ==
    IF StartsWith(call.importPath, <<".">>)
    THEN PathResolve(PathDirname(call.sourceFile), call.importPath)
    ELSE call.importPath

\* C26: when scan returns, two discovered calls that have the same
\* (function name, origin) key, so that only the first is in the result,
\* denote the same module
C26_MergedCallsDenoteSameModule ==
    scanPc = "done" =>
        \A i, j \in DOMAIN scanCalls :
            ScanKey(scanCalls[i]) = ScanKey(scanCalls[j])
                => ModuleOfCall(scanCalls[i]) = ModuleOfCall(scanCalls[j])


(***************************************************************************)
(* C27: no cronStart call is left behind                                   *)
(***************************************************************************)
\* the calls the scanner's pattern finds in a text
ScannerMatches(text) == ReMatchAll(scanCronStartPattern, text)

\* C27: when the loader has transformed a file, and so removed the
\* cronStart import, every call the scanner's pattern finds in the file was
\* matched by the loader's pattern, and the output has no cronStart( call
C27_NoDanglingCronStartCall ==
    (xfRun.by = "loader" /\ xfRun.result.transformed) =>
        /\ Len(ScannerMatches(xfSource)) = Len(xfRun.result.calls)
        /\ ~ Includes(xfRun.out, <<"cronStart", "(">>)


(***************************************************************************)
(* C30: the loader applied to its own output                               *)
(***************************************************************************)
\* what cronStartLoader makes of a source for the file resource
SecondLoaderPass(source, resource) ==
    IF \/ Includes(resource, <<"node_modules">>)
       \/ Includes(resource, PackageName)
       \/ ~ Includes(source, <<"cronStart">>)
       \/ ~ Includes(source, PackageName)
    THEN Untransformed(source)
    ELSE transformCronStartCalls("loader", source,
                                 RelativeToWrapper(XfProjectFs, resource, WorkingDir))

\* C30: the loader applied to code it has transformed returns that code
\* unchanged and reports no transformation
C30_TransformIdempotent ==
    (xfRun.by = "loader" /\ xfRun.result.transformed) =>
        SecondLoaderPass(xfRun.out, xfResource) = Untransformed(xfRun.out)

\* the loader has transformed a file and its output still holds the package
\* name and a call its pattern matches
C30_Witness ==
    /\ xfRun.by = "loader"
    /\ xfRun.result.transformed
    /\ Includes(xfRun.out, PackageName)
    /\ Len(extractCronStartCalls(xfRun.out)) > 0

====
